---------------------------- MODULE Spec2Model ----------------------------
(***************************************************************************)
(* Model of the diagram rendering engine (diagram-renderer.js): the batch  *)
(* driver renderAllDiagrams, the dispatcher DiagramRenderer.render and the *)
(* renderers that talk to the optional collaborators (SmilesDrawer,        *)
(* mermaid, Chart) or fall back to the generic renderer.                   *)
(*                                                                         *)
(* A document is a fixed list of diagram containers.  Each container has   *)
(* its data-diagram attribute, its dataset.rendered flag and its child     *)
(* nodes.  JavaScript runs one synchronous stretch at a time: a step of    *)
(* the model is one such stretch (from a call or the resumption of an      *)
(* await up to the next await or the end of the function), or the          *)
(* completion of asynchronous work a collaborator left pending.            *)
(***************************************************************************)
EXTENDS Integers, Sequences, FiniteSets, TLC

\* Bound of the model: the number of diagram containers of the document.
NumContainers == 2

Containers == 1..NumContainers

\* The callers of renderAllDiagrams: a first caller, and a second one that may
\* call while the first call is suspended.  Each may call again once its call
\* has completed.
Invocations == {1, 2}

(***************************************************************************)
(* DiagramSpec inputs.  json is what JSON.parse makes of the data-diagram  *)
(* attribute: "bad" (it throws), "null" (a value without a type) or "obj". *)
(* nodes, elements and steps list one tag per entry; the tag "null" is a   *)
(* null entry of the list.                                                 *)
(***************************************************************************)
Blank ==
  [json |-> "obj", type |-> "", title |-> "", smiles |-> "", name |-> "",
   nodes |-> <<>>, subtype |-> "", elements |-> <<>>, description |-> "",
   steps |-> <<>>]

BadJson == [Blank EXCEPT !.json = "bad"]
NullJson == [Blank EXCEPT !.json = "null"]
MoleculeSpec ==
  [Blank EXCEPT !.type = "molecule", !.title = "T", !.smiles = "CCO", !.name = "ethanol"]
FlowSpec ==
  [Blank EXCEPT !.type = "process_flow", !.title = "T", !.nodes = <<"rect", "diamond">>]
ClimateSpec == [Blank EXCEPT !.type = "geographic", !.title = "T"]
UnknownSpec ==
  [Blank EXCEPT !.type = "venn", !.title = "T", !.description = "two sets",
                !.elements = <<"rect", "arrow_bad", "other">>]
UnknownNullSpec == [Blank EXCEPT !.type = "venn", !.elements = <<"rect", "null">>]
UnknownBareSpec == [Blank EXCEPT !.type = "venn"]
GenericTextSpec == [Blank EXCEPT !.type = "generic_svg", !.description = "two sets"]
ReactionSpec == [Blank EXCEPT !.type = "reaction", !.title = "T", !.steps = <<"step">>]

Specs ==
  {BadJson, NullJson, MoleculeSpec, FlowSpec, ClimateSpec, UnknownSpec,
   UnknownNullSpec, UnknownBareSpec, GenericTextSpec, ReactionSpec}

Collaborators == {"SmilesDrawer", "mermaid", "Chart"}

\* What a collaborator does when it is called: it succeeds, it throws, or it
\* reports a failure (SmilesDrawer.parse through its error callback, before
\* it returns).  mermaid.run returns a promise unless it throws.
Outcomes == {"ok", "throw", "fail"}

\* The collaborator a renderer calls for a spec of this type ("": none).
Collaborator(type) ==
  CASE type = "molecule"     -> "SmilesDrawer"
    [] type = "process_flow" -> "mermaid"
    [] type = "geographic"   -> "Chart"
    [] OTHER                 -> ""

VARIABLES
  diagram,        \* container -> its data-diagram attribute
  present,        \* the collaborators defined in the runtime
  rendered,       \* container -> dataset.rendered === 'true'
  children,       \* container -> its child nodes, in order
  pc,             \* invocation -> "idle", "await", "done" or "rejected"
  pos,            \* invocation -> the container it awaits (0: none)
  diagramIdCounter,
  geometry,       \* the data of the Geometry spec handed to renderGeometry
  geoOut,         \* what renderGeometry did with it
  graph,          \* the data of the FunctionGraph spec being rendered
  sampler,        \* renderFunctionGraph's position, pen, path and output
  ambient,        \* the global state an expression can reach
  optics,         \* the data of the Optics spec handed to renderOptics
  opticsOut,      \* what renderOptics did with it
  force,          \* the data of the Force spec handed to renderForce
  forceOut,       \* what renderForce did with it
  cell,           \* the data of the Cell spec handed to renderCell
  cellOut,        \* what renderCell did with it
  climate,        \* the data of the chart handed to _renderClimateChartSVG
  climateOut,     \* what _renderClimateChartSVG did with it
  request,        \* the POST request, its environment and the services' answers
  handler,        \* onRequestPost's position, calls made and response
  svgInput,       \* the text handed to sanitizeSvg
  sanitized       \* the passes of sanitizeSvg made and their results

batchVars == <<diagram, present, rendered, children, pc, pos, diagramIdCounter>>
geoVars == <<geometry, geoOut>>
fnVars == <<graph, sampler, ambient>>
optVars == <<optics, opticsOut>>
pureVars == <<geoVars, fnVars, optVars>>

forceVars == <<force, forceOut>>
cellVars == <<cell, cellOut>>
climateVars == <<climate, climateOut>>
apiVars == <<request, handler>>
svgVars == <<svgInput, sanitized>>
lateVars == <<forceVars, cellVars, climateVars, apiVars, svgVars>>

vars == <<batchVars, pureVars, lateVars>>

\* The renderers modelled on their own are not running.
NotCalled == [state |-> "none", threw |-> FALSE, prims |-> <<>>]
NoGeometry ==
  [points |-> <<>>, segments |-> <<>>, auxiliary |-> <<>>, circles |-> <<>>,
   angles |-> <<>>, labels |-> <<>>, title |-> ""]
GeoIdle == geometry = NoGeometry /\ geoOut = NotCalled
NoGraph ==
  [xRange |-> <<>>, yRange |-> <<>>, functions |-> <<>>, title |-> "", gridStep |-> 0]
NotSampling ==
  [pc |-> "none", fi |-> 0, it |-> 0, drawing |-> FALSE, pathD |-> <<>>, svg |-> <<>>]
FnIdle == graph = NoGraph /\ sampler = NotSampling /\ ambient = 0
NoOptics == [elements |-> <<>>, axisRange |-> <<>>, rays |-> TRUE, title |-> ""]
OptIdle == optics = NoOptics /\ opticsOut = NotCalled
PureIdle == GeoIdle /\ FnIdle /\ OptIdle
NoForce == [surface |-> [type |-> "", angle |-> 0], forces |-> <<>>, title |-> ""]
ForceIdle == force = NoForce /\ forceOut = NotCalled
NoCell == [cellType |-> "", structures |-> {}, highlighted |-> {}, title |-> ""]
CellIdle == cell = NoCell /\ cellOut = NotCalled
NoClimate == [temperature |-> <<>>, precipitation |-> <<>>, months |-> <<>>]
ClimateIdle == climate = NoClimate /\ climateOut = NotCalled
ApiIdle == request = <<>> /\ handler = <<>>
SvgIdle == svgInput = <<>> /\ sanitized = <<>>
LateIdle == ForceIdle /\ CellIdle /\ ClimateIdle /\ ApiIdle /\ SvgIdle

(***************************************************************************)
(* DOM nodes.  tag: "error" (renderError's box), "failed" (the box the     *)
(* batch driver writes), "svg", "wrapper" (a div holding a canvas),        *)
(* "mermaid" (the div handed to mermaid) or "desc" (the generic            *)
(* renderer's text box).  canvas: "none", "blank", "drawn", "hidden", or   *)
(* for a mermaid div "source" (it still shows the generated code).         *)
(* pending: the collaborator work still to complete on the node.           *)
(***************************************************************************)
Node(tag) ==
  [tag |-> tag, canvas |-> "none", text |-> "", label |-> "", prims |-> 0,
   top |-> "", bottom |-> "", id |-> 0, pending |-> "none"]

renderError(kids, msg) ==
  Append(kids, [Node("error") EXCEPT !.text = "! " \o msg])

Or(a, b) == IF a # "" THEN a ELSE b


\* What a renderer hands back: the container's children, whether it threw,
\* and the id counter.
Ret(kids, threw, ctr) == [kids |-> kids, threw |-> threw, ctr |-> ctr]

nextDiagramId(ctr) == ctr + 1

(***************************************************************************)
(* renderMolecule.  The wrapper (canvas and name label) is attached before *)
(* SmilesDrawer is looked for.                                             *)
(***************************************************************************)
\* MoleculeTextFallback with the fallback text forgotten: the canvas is hidden and no text is shown.
MoleculeNoFallback(w, smiles) == [w EXCEPT !.canvas = "hidden"]

MoleculeTextFallback(w, smiles) ==
  [w EXCEPT !.canvas = "hidden", !.text = "SMILES: " \o smiles]

MoleculeParseError(w, smiles) ==
  [w EXCEPT !.canvas = "hidden", !.text = "SMILES: " \o smiles \o " (parse failed)"]

MoleculeDrawn(w) == [w EXCEPT !.canvas = "drawn"]

renderMolecule(spec, kids, ctr, o) ==
  IF spec.smiles = ""
  THEN Ret(renderError(kids, "empty SMILES"), FALSE, ctr)
  ELSE LET wrapper == [Node("wrapper") EXCEPT !.canvas = "blank", !.label = spec.name]
           w == IF "SmilesDrawer" \in present
                THEN CASE o = "throw" -> wrapper
                       [] o = "fail"  -> MoleculeParseError(wrapper, spec.smiles)
                       [] OTHER       -> MoleculeDrawn(wrapper)
                ELSE MoleculeTextFallback(wrapper, spec.smiles)
       IN  Ret(Append(kids, w), FALSE, ctr)

(***************************************************************************)
(* renderProcessFlow and its own SVG construction.  Reading a field of a  *)
(* null node throws.  Edges add no case of their own to the claims and are *)
(* left out: an edge whose ends are unknown is skipped.                    *)
(***************************************************************************)
HasNull(list) == \E i \in 1..Len(list) : list[i] = "null"

_renderProcessFlowSVG(spec, kids, ctr) ==
  IF HasNull(spec.nodes)
  THEN Ret(kids, TRUE, ctr)
  ELSE Ret(Append(kids, [Node("svg") EXCEPT !.prims = 2 * Len(spec.nodes),
                                            !.bottom = spec.title]),
           FALSE, ctr)

renderProcessFlow(spec, kids, ctr, o) ==
  IF Len(spec.nodes) = 0
  THEN Ret(renderError(kids, "no flow nodes"), FALSE, ctr)
  ELSE IF "mermaid" \in present
  THEN LET id == nextDiagramId(ctr)
           mermaidDiv == [Node("mermaid") EXCEPT !.canvas = "source", !.id = id]
       IN  IF HasNull(spec.nodes)
           THEN Ret(kids, TRUE, id)
           ELSE IF o = "throw"
           THEN _renderProcessFlowSVG(spec, kids, id)
           ELSE Ret(Append(kids, [mermaidDiv EXCEPT !.pending = "run"]), FALSE, id)
  ELSE _renderProcessFlowSVG(spec, kids, ctr)

(***************************************************************************)
(* renderGenericSVG.  An element tag is the element's shape; "bare" is an  *)
(* entry without a shape (drawn as a rect), "arrow_bad" an arrow without   *)
(* usable ends, "other" a shape the switch does not know.                  *)
(***************************************************************************)
ElementPrims(el) ==
  IF el \in {"rect", "circle", "ellipse", "line", "arrow", "text", "bare"} THEN 1 ELSE 0

RECURSIVE SumPrims(_)
SumPrims(elements) ==
  IF elements = <<>> THEN 0
  ELSE ElementPrims(Head(elements)) + SumPrims(Tail(elements))

GenericTextOnly(elements, description) == Len(elements) = 0 /\ description # ""

\* The descriptions of the model are shorter than the 50 characters kept.
renderGenericSVG(spec, kids, ctr) ==
  IF GenericTextOnly(spec.elements, spec.description)
  THEN Ret(Append(kids, [Node("desc") EXCEPT !.text = "fig: " \o spec.description]),
           FALSE, ctr)
  ELSE IF HasNull(spec.elements)
  THEN Ret(kids, TRUE, ctr)
  ELSE Ret(Append(kids, [Node("svg") EXCEPT !.prims = SumPrims(spec.elements),
                                            !.bottom = spec.description,
                                            !.top = spec.title]),
           FALSE, ctr)

(***************************************************************************)
(* renderGeographic and the climate chart.  With Chart defined, the        *)
(* wrapper is attached before the chart is constructed.                    *)
(***************************************************************************)
\* With no series given: the temperature path and the twelve month labels.
_renderClimateChartSVG(spec, kids, ctr) ==
  Ret(Append(kids, [Node("svg") EXCEPT !.prims = 13, !.bottom = spec.title]), FALSE, ctr)

_renderClimateChart(spec, kids, ctr, o) ==
  IF "Chart" \notin present
  THEN _renderClimateChartSVG(spec, kids, ctr)
  ELSE LET wrapper == [Node("wrapper") EXCEPT !.canvas = "blank"]
       IN  IF o = "throw"
           THEN Ret(Append(kids, wrapper), TRUE, ctr)
           ELSE Ret(Append(kids, [wrapper EXCEPT !.canvas = "drawn"]), FALSE, ctr)

renderGeographic(spec, kids, ctr, o) ==
  IF Or(spec.subtype, "climate_chart") = "climate_chart"
  THEN _renderClimateChart(spec, kids, ctr, o)
  ELSE renderGenericSVG([Blank EXCEPT !.type = "generic_svg",
                                      !.description = Or(spec.description, "geo figure"),
                                      !.elements = spec.elements],
                        kids, ctr)

(***************************************************************************)
(* The renderers that only build an SVG (geometry, function_graph,         *)
(* coordinate, force, circuit, optics, reaction, apparatus, cell): the     *)
(* root is attached last, with the title along the bottom; reading a field *)
(* of a null list entry throws before anything is attached.                *)
(***************************************************************************)
renderReaction(spec, kids, ctr) ==
  IF HasNull(spec.steps)
  THEN Ret(kids, TRUE, ctr)
  ELSE Ret(Append(kids, [Node("svg") EXCEPT !.prims = 3 * Len(spec.steps),
                                            !.bottom = spec.title]),
           FALSE, ctr)

(***************************************************************************)
(* DiagramRenderer.render: the dispatch on spec.type and the catch that    *)
(* turns a renderer's exception into the error box.                        *)
(***************************************************************************)
SvgOnlyTypes ==
  {"geometry", "function_graph", "coordinate", "force", "circuit", "optics",
   "reaction", "apparatus", "cell"}

KnownTypes ==
  SvgOnlyTypes \cup {"molecule", "process_flow", "geographic", "generic_svg"}

Dispatch(spec, kids, ctr, o) ==
  CASE spec.type = "molecule"     -> renderMolecule(spec, kids, ctr, o)
    [] spec.type = "process_flow" -> renderProcessFlow(spec, kids, ctr, o)
    [] spec.type = "geographic"   -> renderGeographic(spec, kids, ctr, o)
    [] spec.type \in SvgOnlyTypes -> renderReaction(spec, kids, ctr)
    [] OTHER                      -> renderGenericSVG(spec, kids, ctr)

renderCatch(spec, r) ==
  Ret(renderError(r.kids, Or(spec.description, Or(spec.title, "render failed"))),
      FALSE, r.ctr)

render(spec, kids, ctr, o) ==
  IF spec.json = "null" \/ spec.type = ""
  THEN Ret(renderError(kids, "no spec"), FALSE, ctr)
  ELSE LET r == Dispatch(spec, kids, ctr, o)
       IN  IF r.threw THEN renderCatch(spec, r) ELSE r

(***************************************************************************)
(* renderAllDiagrams.  Segment is one synchronous stretch of the loop,     *)
(* from container i on: rendered containers are skipped, an attribute that *)
(* does not parse is handled by the catch and the loop goes on, and the    *)
(* first render call suspends the invocation at its await.  The promise    *)
(* render returns is always fulfilled: render's own catch lets nothing     *)
(* escape.                                                                 *)
(***************************************************************************)
FailedDiv == [Node("failed") EXCEPT !.text = "render failed"]

\* DriverCatch without the handler: the exception goes on to the caller.
DriverCatchRethrows(kids) == [rethrow |-> TRUE, kids |-> kids]

\* The catch of the batch driver: innerHTML is replaced by the failure box.
DriverCatch(kids) == [rethrow |-> FALSE, kids |-> <<FailedDiv>>]

\* MarkRendered with the write forgotten: the flag is never written.
MarkRenderedNever(rd, c) == rd

MarkRendered(rd, c) == [rd EXCEPT ![c] = TRUE]

SkipRendered(rd, c) == rd[c]

RECURSIVE Segment(_, _, _, _, _)
Segment(i, rd, kids, ctr, o) ==
  IF i > NumContainers
  THEN [pc |-> "done", pos |-> 0, kids |-> kids, ctr |-> ctr]
  ELSE IF SkipRendered(rd, i)
  THEN Segment(i + 1, rd, kids, ctr, o)
  ELSE IF diagram[i].json = "bad"
  THEN LET h == DriverCatch(kids[i])
       IN  IF h.rethrow
           THEN [pc |-> "rejected", pos |-> i, kids |-> kids, ctr |-> ctr]
           ELSE Segment(i + 1, rd, [kids EXCEPT ![i] = h.kids], ctr, o)
  ELSE LET r == render(diagram[i], kids[i], ctr, o)
       IN  [pc |-> "await", pos |-> i, kids |-> [kids EXCEPT ![i] = r.kids],
            ctr |-> r.ctr]

\* The first container from i on that a pass renders (0: none is left).
RECURSIVE NextToRender(_, _)
NextToRender(i, rd) ==
  IF i > NumContainers THEN 0
  ELSE IF rd[i] \/ diagram[i].json = "bad" THEN NextToRender(i + 1, rd)
  ELSE i

\* The outcomes of the collaborator call a render of container c makes: only
\* SmilesDrawer has an error callback, and a renderer whose collaborator is
\* not defined calls none.
OutcomesAt(c) ==
  IF c = 0 THEN {"ok"}
  ELSE IF Collaborator(diagram[c].type) \notin present THEN {"ok"}
  ELSE IF Collaborator(diagram[c].type) = "SmilesDrawer" THEN Outcomes
  ELSE {"ok", "throw"}

Init ==
  /\ diagram \in [Containers -> Specs]
  /\ present \in SUBSET Collaborators
  /\ rendered = [c \in Containers |-> FALSE]
  /\ children = [c \in Containers |-> <<>>]
  /\ pc = [r \in Invocations |-> "idle"]
  /\ pos = [r \in Invocations |-> 0]
  /\ diagramIdCounter = 0
  /\ PureIdle
  /\ LateIdle

\* A call of renderAllDiagrams(), up to its first await or its end.  A caller
\* whose earlier call has completed may call again.
Invoke(r) ==
  /\ pc[r] \in {"idle", "done"}
  /\ \E o \in OutcomesAt(NextToRender(1, rendered)) :
       LET s == Segment(1, rendered, children, diagramIdCounter, o)
       IN  /\ pc' = [pc EXCEPT ![r] = s.pc]
           /\ pos' = [pos EXCEPT ![r] = s.pos]
           /\ children' = s.kids
           /\ diagramIdCounter' = s.ctr
  /\ UNCHANGED <<diagram, present, rendered, pureVars, lateVars>>

\* The await resumes: the container is marked and the loop goes on.
Resume(r) ==
  /\ pc[r] = "await"
  /\ \E o \in OutcomesAt(NextToRender(pos[r] + 1, MarkRendered(rendered, pos[r]))) :
       LET rd == MarkRendered(rendered, pos[r])
           s == Segment(pos[r] + 1, rd, children, diagramIdCounter, o)
       IN  /\ rendered' = rd
           /\ pc' = [pc EXCEPT ![r] = s.pc]
           /\ pos' = [pos EXCEPT ![r] = s.pos]
           /\ children' = s.kids
           /\ diagramIdCounter' = s.ctr
  /\ UNCHANGED <<diagram, present, pureVars, lateVars>>

\* The promise of mermaid.run settles: the graph is drawn, or the rejection
\* goes unhandled and the div keeps the generated code.
MermaidSettled(c, i) ==
  /\ i \in 1..Len(children[c])
  /\ children[c][i].pending = "run"
  /\ \E ok \in BOOLEAN :
       children' = [children EXCEPT ![c][i] =
                      IF ok THEN [@ EXCEPT !.canvas = "drawn", !.pending = "none"]
                      ELSE [@ EXCEPT !.pending = "none"]]
  /\ UNCHANGED <<diagram, present, rendered, pc, pos, diagramIdCounter, pureVars, lateVars>>

\* A render call attaches at most two nodes (a wrapper, then the error box),
\* and each caller renders a container at most once before its flag is set.
MaxChildren == 2 * Cardinality(Invocations)

Next ==
  \/ \E r \in Invocations : Invoke(r)
  \/ \E r \in Invocations : Resume(r)
  \/ \E c \in Containers : \E i \in 1..MaxChildren : MermaidSettled(c, i)

Spec == Init /\ [][Next]_vars


(***************************************************************************)
(* JavaScript numbers, as far as the coordinate arithmetic needs them: a   *)
(* number is n/d in lowest terms with d > 0, or d = 0 for the values that  *)
(* are not finite: n = 0 is NaN, n = 1 is Infinity, n = -1 is -Infinity.   *)
(* The arithmetic is exact: rounding of the doubles is left out, and so is *)
(* the sign of zero.                                                       *)
(***************************************************************************)
RECURSIVE GCD(_, _)
GCD(a, b) == IF b = 0 THEN a ELSE GCD(b, a % b)

Abs(i) == IF i < 0 THEN -i ELSE i
Sgn(i) == IF i > 0 THEN 1 ELSE IF i < 0 THEN -1 ELSE 0

Num(n, d) ==
  IF d = 0 THEN [n |-> Sgn(n), d |-> 0]
  ELSE LET g == GCD(Abs(n), Abs(d))
       IN  [n |-> Sgn(d) * (Sgn(n) * (Abs(n) \div g)), d |-> Abs(d) \div g]

FromInt(i) == [n |-> i, d |-> 1]
NaN == [n |-> 0, d |-> 0]
isNaN(a) == a.d = 0 /\ a.n = 0
isFinite(a) == a.d # 0

Neg(a) == [n |-> -a.n, d |-> a.d]

Add(a, b) ==
  IF isNaN(a) \/ isNaN(b) THEN NaN
  ELSE IF a.d = 0 /\ b.d = 0 THEN (IF a.n = b.n THEN a ELSE NaN)
  ELSE IF a.d = 0 THEN a
  ELSE IF b.d = 0 THEN b
  ELSE Num(a.n * b.d + b.n * a.d, a.d * b.d)

Sub(a, b) == Add(a, Neg(b))
Mul(a, b) == Num(a.n * b.n, a.d * b.d)
Div(a, b) == Num(a.n * b.d * (IF b.n < 0 THEN -1 ELSE 1), a.d * Abs(b.n))

Lt(a, b) ==
  /\ ~isNaN(a)
  /\ ~isNaN(b)
  /\ IF a.d = 0 /\ b.d = 0 THEN a.n < b.n ELSE a.n * b.d < b.n * a.d

Le(a, b) ==
  /\ ~isNaN(a)
  /\ ~isNaN(b)
  /\ IF a.d = 0 /\ b.d = 0 THEN a.n <= b.n ELSE a.n * b.d <= b.n * a.d

\* Math.min of two numbers.
MathMin(a, b) == IF isNaN(a) \/ isNaN(b) THEN NaN ELSE IF Le(a, b) THEN a ELSE b

SetMin(S) == CHOOSE m \in S : \A e \in S : m <= e
SetMax(S) == CHOOSE m \in S : \A e \in S : e <= m

RECURSIVE Concat(_)
Concat(ss) == IF ss = <<>> THEN <<>> ELSE Head(ss) \o Concat(Tail(ss))

\* String.prototype.includes, on strings given as sequences of characters.
Includes(s, sub) ==
  \E i \in 0..(Len(s) - Len(sub)) : SubSeq(s, i + 1, i + Len(sub)) = sub

(***************************************************************************)
(* renderGeometry.  A point is [id, x, y] with integer coordinates, a      *)
(* segment a pair of ids, an auxiliary line and an edge label [from, to],  *)
(* a circle [center, radius], an angle [vertex, value, mark].  The value   *)
(* of an angle is absent, a string or a number, as JSON gives it.          *)
(* A primitive of the output is [kind, of, at]: of is the index of the     *)
(* entry it was drawn for, at its pixel coordinates.  The glyphs of an     *)
(* angle and the labels are placed with square roots and arctangents;      *)
(* their at is the vertex or the midpoint they are placed from.            *)
(***************************************************************************)
GeoW == 360
GeoH == 280
GeoPad == 40

Declared(points, id) == \E i \in 1..Len(points) : points[i].id = id

\* ptMap[id]: a later point of the same id replaces an earlier one.
ptMap(points, id) ==
  points[CHOOSE i \in 1..Len(points) :
           points[i].id = id /\ \A j \in (i + 1)..Len(points) : points[j].id # id]

\* The circles whose centre is declared take part in the bounding box.
AllX(g) ==
  LET S == {g.points[i].x : i \in 1..Len(g.points)}
             \cup UNION {{ptMap(g.points, c.center).x - c.radius,
                          ptMap(g.points, c.center).x + c.radius} :
                         c \in {g.circles[i] : i \in {j \in 1..Len(g.circles) :
                                   Declared(g.points, g.circles[j].center)}}}
  IN  IF Len(g.points) = 0 THEN {0, 4} ELSE S

AllY(g) ==
  LET S == {g.points[i].y : i \in 1..Len(g.points)}
             \cup UNION {{ptMap(g.points, c.center).y - c.radius,
                          ptMap(g.points, c.center).y + c.radius} :
                         c \in {g.circles[i] : i \in {j \in 1..Len(g.circles) :
                                   Declared(g.points, g.circles[j].center)}}}
  IN  IF Len(g.points) = 0 THEN {0, 3} ELSE S

minX(g) == SetMin(AllX(g))
maxX(g) == SetMax(AllX(g))
minY(g) == SetMin(AllY(g))
maxY(g) == SetMax(AllY(g))

\* maxX - minX || 4 and maxY - minY || 3: a box without extent gets a default.
rangeX(g) == IF maxX(g) - minX(g) = 0 THEN 4 ELSE maxX(g) - minX(g)
rangeY(g) == IF maxY(g) - minY(g) = 0 THEN 3 ELSE maxY(g) - minY(g)

scale(g) ==
  MathMin(Div(FromInt(GeoW - 2 * GeoPad), FromInt(rangeX(g))),
          Div(FromInt(GeoH - 2 * GeoPad), FromInt(rangeY(g))))

geoTx(g, x) ==
  Add(Add(FromInt(GeoPad), Mul(FromInt(x - minX(g)), scale(g))),
      Div(Sub(FromInt(GeoW - 2 * GeoPad), Mul(FromInt(rangeX(g)), scale(g))), FromInt(2)))

geoTy(g, y) ==
  Sub(Sub(FromInt(GeoH - GeoPad), Mul(FromInt(y - minY(g)), scale(g))),
      Div(Sub(FromInt(GeoH - 2 * GeoPad), Mul(FromInt(rangeY(g)), scale(g))), FromInt(2)))

Prim(kind, of, at) == [kind |-> kind, of |-> of, at |-> at]
Drawn(prims) == [threw |-> FALSE, prims |-> prims]
\* A TypeError: a property of undefined was read, or a method was missing.
Thrown == [threw |-> TRUE, prims |-> <<>>]

\* The loops of a renderer, one after the other.
RECURSIVE InOrder(_)
InOrder(rs) ==
  IF rs = <<>> THEN Drawn(<<>>)
  ELSE IF Head(rs).threw THEN Thrown
  ELSE LET rest == InOrder(Tail(rs))
       IN  IF rest.threw THEN Thrown ELSE Drawn(Head(rs).prims \o rest.prims)

\* SkipDangling with the test forgotten: nothing is ever skipped.
SkipDanglingNever(ok1, ok2) == FALSE

\* if (!p1 || !p2) return;
SkipDangling(ok1, ok2) == ~ok1 \/ ~ok2

PxOf(g, id) == <<geoTx(g, ptMap(g.points, id).x), geoTy(g, ptMap(g.points, id).y)>>

Midpoint(p, q) == <<Div(Add(p[1], q[1]), FromInt(2)), Div(Add(p[2], q[2]), FromInt(2))>>

CirclePrims(g, i) ==
  LET c == g.circles[i]
      ok == Declared(g.points, c.center)
  IN  IF SkipDangling(ok, TRUE) THEN Drawn(<<>>)
      ELSE IF ~ok THEN Thrown
      ELSE Drawn(<<Prim("circle", i,
                        PxOf(g, c.center) \o <<Mul(FromInt(c.radius), scale(g))>>)>>)

AuxiliaryPrims(g, i) ==
  LET a == g.auxiliary[i]
      ok1 == Declared(g.points, a.from)
      ok2 == Declared(g.points, a.to)
  IN  IF SkipDangling(ok1, ok2) THEN Drawn(<<>>)
      ELSE IF ~ok1 \/ ~ok2 THEN Thrown
      ELSE Drawn(<<Prim("auxiliary", i, PxOf(g, a.from) \o PxOf(g, a.to))>>
                 \o (IF a.label # ""
                     THEN LET m == Midpoint(PxOf(g, a.from), PxOf(g, a.to))
                          IN  <<Prim("auxlabel", i, <<Add(m[1], FromInt(8)), m[2]>>)>>
                     ELSE <<>>))

SegmentPrims(g, i) ==
  LET seg == g.segments[i]
      ok1 == Declared(g.points, seg[1])
      ok2 == Declared(g.points, seg[2])
  IN  IF SkipDangling(ok1, ok2) THEN Drawn(<<>>)
      ELSE IF ~ok1 \/ ~ok2 THEN Thrown
      ELSE Drawn(<<Prim("segment", i, PxOf(g, seg[1]) \o PxOf(g, seg[2]))>>)

\* The declared points joined to vertex v by a segment or an auxiliary line.
connPts(g, v) ==
  Concat([i \in 1..Len(g.segments) |->
            (IF g.segments[i][1] = v /\ Declared(g.points, g.segments[i][2])
             THEN <<g.segments[i][2]>> ELSE <<>>)
            \o (IF g.segments[i][2] = v /\ Declared(g.points, g.segments[i][1])
                THEN <<g.segments[i][1]>> ELSE <<>>)])
  \o Concat([i \in 1..Len(g.auxiliary) |->
            (IF g.auxiliary[i].from = v /\ Declared(g.points, g.auxiliary[i].to)
             THEN <<g.auxiliary[i].to>> ELSE <<>>)
            \o (IF g.auxiliary[i].to = v /\ Declared(g.points, g.auxiliary[i].from)
                THEN <<g.auxiliary[i].from>> ELSE <<>>)])

\* The value of an angle, as JSON gives it.
NoValue == [type |-> "undefined", s |-> <<>>, v |-> 0]
Str(s) == [type |-> "string", s |-> s, v |-> 0]
Number(v) == [type |-> "number", s |-> <<>>, v |-> v]

DirectAngle == <<"d", "i", "r", "e", "c", "t", "_", "a", "n", "g", "l", "e">>

Truthy(value) ==
  \/ value.type = "string" /\ value.s # <<>>
  \/ value.type = "number" /\ value.v # 0

\* a.value && (a.value.includes("90") || a.value === "direct_angle"), for a
\* value that has the method.
isRight(value) ==
  Truthy(value) /\ (Includes(value.s, <<"9", "0">>) \/ value.s = DirectAngle)

AnglePrims(g, i) ==
  LET a == g.angles[i]
      cp == connPts(g, a.vertex)
      ok == Declared(g.points, a.vertex)
  IN  IF SkipDangling(ok, TRUE) THEN Drawn(<<>>)
      ELSE IF Len(cp) < 2 THEN Drawn(<<>>)
      ELSE IF ~ok THEN Thrown
      ELSE IF Truthy(a.value) /\ a.value.type = "number" THEN Thrown
      ELSE Drawn((IF a.mark /\ isRight(a.value)
                  THEN <<Prim("bracket", i, PxOf(g, a.vertex))>>
                  ELSE IF a.mark THEN <<Prim("arc", i, PxOf(g, a.vertex))>>
                  ELSE <<>>)
                 \o (IF Truthy(a.value) /\ a.value.s # DirectAngle
                     THEN <<Prim("anglelabel", i, PxOf(g, a.vertex))>>
                     ELSE <<>>))

PointPrims(g, i) ==
  LET p == g.points[i]
      px == geoTx(g, p.x)
      py == geoTy(g, p.y)
      offY == IF 10 * (p.y - minY(g)) <= 3 * rangeY(g) THEN 16 ELSE -12
      offX == IF 10 * (maxX(g) - p.x) <= 2 * rangeX(g) THEN 10
              ELSE IF 10 * (p.x - minX(g)) <= 2 * rangeX(g) THEN -10
              ELSE 0
  IN  Drawn(<<Prim("point", i, <<px, py>>),
              Prim("pointlabel", i, <<Add(px, FromInt(offX)), Add(py, FromInt(offY))>>)>>)

LabelPrims(g, i) ==
  LET l == g.labels[i]
      ok1 == Declared(g.points, l.from)
      ok2 == Declared(g.points, l.to)
  IN  IF SkipDangling(ok1, ok2) THEN Drawn(<<>>)
      ELSE IF ~ok1 \/ ~ok2 THEN Thrown
      ELSE Drawn(<<Prim("edgelabel", i, Midpoint(PxOf(g, l.from), PxOf(g, l.to)))>>)

TitlePrims(title, w, h) ==
  IF title # "" THEN Drawn(<<Prim("title", 0, <<Div(FromInt(w), FromInt(2)), FromInt(h)>>)>>)
  ELSE Drawn(<<>>)

renderGeometry(g) ==
  LET r == InOrder(
             [i \in 1..Len(g.circles) |-> CirclePrims(g, i)]
             \o [i \in 1..Len(g.auxiliary) |-> AuxiliaryPrims(g, i)]
             \o [i \in 1..Len(g.segments) |-> SegmentPrims(g, i)]
             \o [i \in 1..Len(g.angles) |-> AnglePrims(g, i)]
             \o [i \in 1..Len(g.points) |-> PointPrims(g, i)]
             \o [i \in 1..Len(g.labels) |-> LabelPrims(g, i)]
             \o <<TitlePrims(g.title, GeoW, GeoH - 8)>>)
  IN  [state |-> "done", threw |-> r.threw, prims |-> r.prims]

(***************************************************************************)
(* The Geometry specs of the model: up to three points A, B, C in one of   *)
(* four layouts (a right triangle, and boxes without width, without height *)
(* or without both), any of the three sides and a segment from B to X as   *)
(* segments, one auxiliary line, one circle, one angle at A and one edge   *)
(* label.  A reference dangles when its point is left out of points; X is  *)
(* never declared.                                                         *)
(***************************************************************************)
Geometries ==
  LET Layouts ==
        {[A |-> <<0, 0>>, B |-> <<4, 0>>, C |-> <<0, 3>>],
         [A |-> <<0, 0>>, B |-> <<0, 2>>, C |-> <<0, 5>>],
         [A |-> <<1, 1>>, B |-> <<1, 1>>, C |-> <<1, 1>>],
         [A |-> <<-2, 1>>, B |-> <<3, 1>>, C |-> <<5, 1>>]}
      \* The points of a layout that a spec declares, in the order A, B, C.
      PointsOf(layout, ids) ==
        LET Keep(id) == id \in ids
            kept == SelectSeq(<<"A", "B", "C">>, Keep)
        IN  [i \in 1..Len(kept) |-> [id |-> kept[i], x |-> layout[kept[i]][1],
                                     y |-> layout[kept[i]][2]]]
      \* The three sides, and a segment to a point X that no spec declares.
      Sides == <<(<<"A", "B">>), (<<"A", "C">>), (<<"B", "C">>), (<<"B", "X">>)>>
      SegmentsOf(S) == LET Keep(e) == e \in S IN SelectSeq(Sides, Keep)
      AngleValues ==
        {NoValue, Str(<<"9", "0">>), Str(<<"6", "0">>), Str(<<"1", "9", "0">>),
         Str(DirectAngle), Number(60)}
  IN  {[points |-> PointsOf(layout, ids), segments |-> SegmentsOf(S),
        auxiliary |-> aux, circles |-> cs, angles |-> as, labels |-> ls,
        title |-> t] :
         layout \in Layouts, ids \in SUBSET {"A", "B", "C"},
         S \in SUBSET {Sides[i] : i \in 1..Len(Sides)},
         aux \in {<<>>, <<[from |-> "B", to |-> "C", label |-> "h"]>>},
         cs \in {<<>>, <<[center |-> "C", radius |-> 2]>>},
         as \in {<<>>, <<[vertex |-> "A", value |-> Str(<<"6", "0">>), mark |-> FALSE]>>}
                   \cup {<<[vertex |-> "A", value |-> v, mark |-> TRUE]>> :
                           v \in AngleValues},
         ls \in {<<>>, <<[from |-> "A", to |-> "B", text |-> "5"]>>},
         t \in {"", "T"}}

BatchQuiet ==
  /\ diagram = [c \in Containers |-> Blank]
  /\ present = {}
  /\ rendered = [c \in Containers |-> FALSE]
  /\ children = [c \in Containers |-> <<>>]
  /\ pc = [r \in Invocations |-> "idle"]
  /\ pos = [r \in Invocations |-> 0]
BatchIdle == BatchQuiet /\ diagramIdCounter = 0

GeoInit ==
  /\ BatchIdle
  /\ LateIdle
  /\ FnIdle
  /\ OptIdle
  /\ geometry \in Geometries
  /\ geoOut = NotCalled

RenderGeometry ==
  /\ geoOut.state = "none"
  /\ geoOut' = renderGeometry(geometry)
  /\ UNCHANGED <<geometry, batchVars, lateVars, fnVars, optVars>>

GeoSpec == GeoInit /\ [][RenderGeometry]_vars

(***************************************************************************)
(* renderFunctionGraph: the coordinate mapper, the expression evaluator    *)
(* and the curve sampler.  An expression text is a sequence of tokens, the *)
(* words and signs between the word boundaries of the text.                *)
(***************************************************************************)
FnW == 380
FnH == 300
FnPad == 40
\* The sampler divides the x range into this many steps.
Samples == 300
\* Bound of the model: the iterations followed of a loop whose x never comes
\* nearer to the end of its range.
MaxStall == 3

\* safeArr(d.xRange).length === 2 ? d.xRange : [-5, 5]
RangeOr(r) == IF Len(r) = 2 THEN r ELSE <<-5, 5>>

fnSx(g) == Div(FromInt(FnW - 2 * FnPad), FromInt(RangeOr(g.xRange)[2] - RangeOr(g.xRange)[1]))
fnSy(g) == Div(FromInt(FnH - 2 * FnPad), FromInt(RangeOr(g.yRange)[2] - RangeOr(g.yRange)[1]))
fnTx(g, x) == Add(FromInt(FnPad), Mul(Sub(x, FromInt(RangeOr(g.xRange)[1])), fnSx(g)))
fnTy(g, y) == Sub(FromInt(FnH - FnPad), Mul(Sub(y, FromInt(RangeOr(g.yRange)[1])), fnSy(g)))

\* One .replace(/\bword\b/g, replacement) of the chain.
Replace(toks, words, repl) ==
  Concat([i \in 1..Len(toks) |-> IF toks[i] \in words THEN repl ELSE <<toks[i]>>])

safeExpr(toks) ==
  LET t1 == Replace(toks, {"sin"}, <<"Math", ".", "sin">>)
      t2 == Replace(t1, {"cos"}, <<"Math", ".", "cos">>)
      t3 == Replace(t2, {"tan"}, <<"Math", ".", "tan">>)
      t4 == Replace(t3, {"abs"}, <<"Math", ".", "abs">>)
      t5 == Replace(t4, {"sqrt"}, <<"Math", ".", "sqrt">>)
      t6 == Replace(t5, {"ln"}, <<"Math", ".", "log">>)
      t7 == Replace(t6, {"log"}, <<"Math", ".", "log10">>)
      t8 == Replace(t7, {"exp"}, <<"Math", ".", "exp">>)
      t9 == Replace(t8, {"pi", "Pi", "pI", "PI"}, <<"Math", ".", "PI">>)
  IN  Replace(t9, {"^"}, <<"**">>)

\* What a call returns or does: a number, a BigInt, or a throw; amb is the
\* ambient state it leaves (the global variable hacked: 0 is not defined).
Returns(v, amb) == [k |-> "number", v |-> v, amb |-> amb]
Throws(amb) == [k |-> "throw", v |-> NaN, amb |-> amb]

\* new Function('x', 'return ' + body)(x) for the bodies of the model.  The
\* body runs as global code: it reads and writes the global object.
RunFunction(body, x, amb) ==
  CASE body = <<"x">> -> Returns(x, amb)
    [] body = <<"x", "**", "2">> -> Returns(Mul(x, x), amb)
    [] body = <<"1", "/", "x">> -> Returns(Div(FromInt(1), x), amb)
    [] body = <<"Math", ".", "abs", "(", "x", ")">> ->
         Returns([n |-> Abs(x.n), d |-> x.d], amb)
    [] body = <<"hacked", "=", "1">> -> Returns(FromInt(1), 1)
    [] body = <<"hacked">> -> IF amb = 1 THEN Returns(FromInt(1), amb) ELSE Throws(amb)
    [] body = <<"1n">> -> [k |-> "bigint", v |-> NaN, amb |-> amb]
    \* An assignment has the value assigned; counterAfter has its effect.
    [] body = <<"_diagramIdCounter", "=", "0">> -> Returns(FromInt(0), amb)
    \* Math.Math is undefined: a TypeError.
    [] body = <<"Math", ".", "Math", ".", "log10", "(", "x", ")">> -> Throws(amb)
    \* foo is not defined: a ReferenceError.
    [] body = <<"foo", "(", "x", ")">> -> Throws(amb)
    \* Anything else, as "x +", is taken not to parse: a SyntaxError.
    [] OTHER -> Throws(amb)

\* The id counter after new Function('x', 'return ' + body)(x): the script's
\* top-level let _diagramIdCounter is in the scope of the body.
counterAfter(expr, ctr) ==
  IF expr.type = "string" /\ safeExpr(expr.s) = <<"_diagramIdCounter", "=", "0">>
  THEN 0 ELSE ctr

\* The catch of evalExpr without its handler: the exception goes on.
CatchRethrows(r) == r

\* catch { return NaN; }
CatchNaN(r) == IF r.k = "throw" THEN Returns(NaN, r.amb) ELSE r

\* expr.replace of a value that is not a string throws inside the try.
evalExpr(expr, x, amb) ==
  CatchNaN(IF expr.type # "string" THEN Throws(amb)
           ELSE RunFunction(safeExpr(expr.s), x, amb))

\* The x of iteration it: x starts at xRange[0] and grows by step each time.
step(g) == Div(FromInt(RangeOr(g.xRange)[2] - RangeOr(g.xRange)[1]), FromInt(Samples))
xAt(g, it) == Add(FromInt(RangeOr(g.xRange)[1]), Mul(FromInt(it), step(g)))

\* x <= xRange[1].  Where the sums of the steps should give xRange[1]
\* exactly, the rounding of the doubles decides: both outcomes are possible.
MayEnter(g, it) == Le(xAt(g, it), FromInt(RangeOr(g.xRange)[2]))
MayLeave(g, it) ==
  \/ ~Le(xAt(g, it), FromInt(RangeOr(g.xRange)[2]))
  \/ xAt(g, it) = FromInt(RangeOr(g.xRange)[2]) /\ it > 0 /\ step(g).n # 0

\* isNaN(y) || !isFinite(y) || y < yRange[0] - 10 || y > yRange[1] + 10
Skipped(g, y) ==
  \/ isNaN(y)
  \/ ~isFinite(y)
  \/ Lt(y, FromInt(RangeOr(g.yRange)[1] - 10))
  \/ Lt(FromInt(RangeOr(g.yRange)[2] + 10), y)

\* The pen after a skipped sample, with the lift forgotten.
LiftNever(drawing) == drawing

\* drawing = false;
Lift(drawing) == FALSE

\* The command a sample adds to the path; it is the iteration it comes from.
Command(g, drawing, it, y) ==
  [op |-> IF drawing THEN "L" ELSE "M", it |-> it,
   px |-> fnTx(g, xAt(g, it)), py |-> fnTy(g, y)]

\* d.gridStep || 1: a step of 0 or a missing one is 1.
gridStep(g) == IF g.gridStep = 0 THEN 1 ELSE g.gridStep

\* The x (or y) of iteration it of a grid loop, "gridX" over xRange and
\* "gridY" over yRange: it starts at Math.ceil(range[0] / gridStep) * gridStep
\* and grows by gridStep.
gridAt(g, axis, it) ==
  LET lo == IF axis = "gridX" THEN RangeOr(g.xRange)[1] ELSE RangeOr(g.yRange)[1]
      q == Div(FromInt(lo), FromInt(gridStep(g)))
      ceil == -((-q.n) \div q.d)
  IN  FromInt(ceil * gridStep(g) + it * gridStep(g))

\* x <= xRange[1] (y <= yRange[1]): the condition of a grid loop.
GridEnter(g, axis, it) ==
  Le(gridAt(g, axis, it),
     FromInt(IF axis = "gridX" THEN RangeOr(g.xRange)[2] ELSE RangeOr(g.yRange)[2]))

\* The line of one grid value; the value 0 gets none (continue).
GridPrims(g, axis, it) ==
  LET v == gridAt(g, axis, it)
      xr == RangeOr(g.xRange)
      yr == RangeOr(g.yRange)
  IN  IF v.n = 0 THEN <<>>
      ELSE IF axis = "gridX"
      THEN <<Prim("grid", 1, <<fnTx(g, v), fnTy(g, FromInt(yr[1])),
                                fnTx(g, v), fnTy(g, FromInt(yr[2]))>>)>>
      ELSE <<Prim("grid", 2, <<fnTx(g, FromInt(xr[1])), fnTy(g, v),
                                fnTx(g, FromInt(xr[2])), fnTy(g, v)>>)>>

\* The two axes; the letters and the origin use the same tx and ty.
Axes(g) ==
  <<Prim("axis", 1, <<fnTx(g, FromInt(RangeOr(g.xRange)[1])), fnTy(g, FromInt(0)),
                      fnTx(g, FromInt(RangeOr(g.xRange)[2])), fnTy(g, FromInt(0))>>),
    Prim("axis", 2, <<fnTx(g, FromInt(0)), fnTy(g, FromInt(RangeOr(g.yRange)[1])),
                      fnTx(g, FromInt(0)), fnTy(g, FromInt(RangeOr(g.yRange)[2]))>>)>>

\* functions.forEach from function fi on, at the head of its loop; after the
\* last function the title is added and the root is attached.
StartFunction(g, fi, svg) ==
  IF fi > Len(g.functions)
  THEN [NotSampling EXCEPT !.pc = "done",
                           !.svg = svg \o TitlePrims(g.title, FnW, FnH - 6).prims]
  ELSE [NotSampling EXCEPT !.pc = "sampling", !.fi = fi, !.svg = svg]

(***************************************************************************)
(* The FunctionGraph specs of the model.  The functions have no label and  *)
(* the spec has no points and no asymptotes.  A gridStep is given only     *)
(* with the function x.                                                    *)
(***************************************************************************)
Graphs ==
  LET Exprs ==
        {Str(<<"x">>), Str(<<"x", "^", "2">>), Str(<<"1", "/", "x">>),
         Str(<<"abs", "(", "x", ")">>), Str(<<"ln", "(", "x", ")">>), Str(<<"x", "+">>),
         Str(<<"foo", "(", "x", ")">>), NoValue, Number(5),
         Str(<<"hacked", "=", "1">>), Str(<<"hacked">>), Str(<<"1n">>),
         Str(<<"_diagramIdCounter", "=", "0">>)}
      FunctionLists ==
        {<<[expr |-> e]>> : e \in Exprs}
        \cup {<<[expr |-> Str(<<"x", "+">>)], [expr |-> Str(<<"x">>)]>>,
              <<[expr |-> NoValue], [expr |-> Str(<<"1", "/", "x">>)]>>,
              <<[expr |-> Str(<<"hacked", "=", "1">>)], [expr |-> Str(<<"hacked">>)]>>,
              <<[expr |-> Str(<<"1n">>)], [expr |-> Str(<<"x">>)]>>}
      Ranged(fss, gss) ==
        {[xRange |-> xr, yRange |-> yr, functions |-> fs, title |-> "T", gridStep |-> gs] :
           xr \in {<<>>, <<0, 3>>, <<2, 2>>, <<3, 0>>},
           yr \in {<<>>, <<-1, 1>>, <<1, 1>>},
           fs \in fss, gs \in gss}
  IN  Ranged(FunctionLists, {0}) \cup Ranged({<<[expr |-> Str(<<"x">>)]>>}, {2, -1})

\* Two flow diagrams have been given ids before this call.
FnInit ==
  /\ BatchQuiet
  /\ diagramIdCounter = 2
  /\ LateIdle
  /\ GeoIdle
  /\ OptIdle
  /\ graph \in Graphs
  /\ ambient \in {0, 1}
  /\ sampler = NotSampling

\* renderFunctionGraph is called: up to the head of the first grid loop.
CallFunctionGraph ==
  /\ sampler.pc = "none"
  /\ sampler' = [NotSampling EXCEPT !.pc = "gridX"]
  /\ UNCHANGED <<graph, ambient, batchVars, lateVars, geoVars, optVars>>

\* One iteration of a grid loop.
Grid ==
  /\ sampler.pc \in {"gridX", "gridY"}
  /\ GridEnter(graph, sampler.pc, sampler.it)
  /\ gridStep(graph) > 0 \/ sampler.it < MaxStall
  /\ sampler' = [sampler EXCEPT !.svg = @ \o GridPrims(graph, sampler.pc, sampler.it),
                                !.it = @ + 1]
  /\ UNCHANGED <<graph, ambient, batchVars, lateVars, geoVars, optVars>>

\* A grid loop is left: the y grid follows the x grid; after the y grid the
\* axes are drawn and the first function starts.
EndGrid ==
  /\ sampler.pc \in {"gridX", "gridY"}
  /\ ~GridEnter(graph, sampler.pc, sampler.it)
  /\ sampler' = IF sampler.pc = "gridX"
                THEN [sampler EXCEPT !.pc = "gridY", !.it = 0]
                ELSE StartFunction(graph, 1, sampler.svg \o Axes(graph))
  /\ UNCHANGED <<graph, ambient, batchVars, lateVars, geoVars, optVars>>

\* One iteration of the sampling loop.  isNaN of a BigInt throws.
Sample ==
  /\ sampler.pc = "sampling"
  /\ MayEnter(graph, sampler.it)
  /\ step(graph).n # 0 \/ sampler.it < MaxStall
  /\ LET r == evalExpr(graph.functions[sampler.fi].expr, xAt(graph, sampler.it), ambient)
     IN  /\ ambient' = r.amb
         /\ sampler' =
              IF r.k # "number" THEN [NotSampling EXCEPT !.pc = "threw"]
              ELSE IF Skipped(graph, r.v)
              THEN [sampler EXCEPT !.drawing = Lift(@), !.it = @ + 1]
              ELSE [sampler EXCEPT
                      !.pathD = Append(@, Command(graph, sampler.drawing, sampler.it, r.v)),
                      !.drawing = TRUE, !.it = @ + 1]
  /\ diagramIdCounter' =
       counterAfter(graph.functions[sampler.fi].expr, diagramIdCounter)
  /\ UNCHANGED <<graph, diagram, present, rendered, children, pc, pos>>
  /\ UNCHANGED <<lateVars, geoVars, optVars>>

\* The loop is left: the path is appended if it has commands, and the next
\* function starts.
EndFunction ==
  /\ sampler.pc = "sampling"
  /\ MayLeave(graph, sampler.it)
  /\ sampler' =
       StartFunction(graph, sampler.fi + 1,
                     sampler.svg \o (IF sampler.pathD # <<>>
                                     THEN <<Prim("path", sampler.fi, sampler.pathD)>>
                                     ELSE <<>>))
  /\ UNCHANGED <<graph, ambient, batchVars, lateVars, geoVars, optVars>>

FnNext == CallFunctionGraph \/ Grid \/ EndGrid \/ Sample \/ EndFunction

FnSpec == FnInit /\ [][FnNext]_vars

(***************************************************************************)
(* renderOptics.  An element is [type, position, focalLength, height]; a   *)
(* field that is absent is 0, which el.position || 0, el.focalLength || 10 *)
(* and el.height || 3 treat as they treat an absent one.                   *)
(***************************************************************************)
OptW == 400
OptH == 240
OptPad == 30

\* safeArr(d.axisRange).length === 2 ? d.axisRange : [-30, 30]
AxisOr(r) == IF Len(r) = 2 THEN r ELSE <<-30, 30>>

optSx(o) == Div(FromInt(OptW - 2 * OptPad), FromInt(AxisOr(o.axisRange)[2] - AxisOr(o.axisRange)[1]))
optTx(o, x) == Add(FromInt(OptPad), Mul(FromInt(x - AxisOr(o.axisRange)[1]), optSx(o)))
cy == OptH \div 2

\* The last element of one of the types (0: there is none): a later lens or
\* object replaces an earlier one.
LastOf(elements, types) ==
  LET S == {i \in 1..Len(elements) : elements[i].type \in types}
  IN  IF S = {} THEN 0 ELSE SetMax(S)

focalLen(o, el) == Mul(FromInt(IF el.focalLength = 0 THEN 10 ELSE el.focalLength), optSx(o))
objH(o, el) ==
  Div(Mul(FromInt(IF el.height = 0 THEN 3 ELSE el.height), optSx(o)), FromInt(2))

ElementPrimsAt(o, i) ==
  LET el == o.elements[i]
      px == optTx(o, el.position)
  IN  (IF el.type \in {"convex_lens", "concave_lens"}
       THEN <<Prim("lens", i, <<px, FromInt(cy)>>)>> ELSE <<>>)
      \o (IF el.type = "convex_lens"
          THEN <<Prim("focus", i, <<Sub(px, focalLen(o, el)), FromInt(cy)>>),
                 Prim("focus", i, <<Add(px, focalLen(o, el)), FromInt(cy)>>)>>
          ELSE <<>>)
      \o (IF el.type = "object"
          THEN <<Prim("object", i, <<px, FromInt(cy), px, Sub(FromInt(cy), objH(o, el))>>)>>
          ELSE <<>>)

AbsNum(a) == [n |-> Abs(a.n), d |-> a.d]

\* The image distance with the sum in place of the difference.
imageVSum(f, u) == Div(Mul(f, u), Add(u, f))

\* v = (focalLen * u) / (u - focalLen)
imageV(f, u) == Div(Mul(f, u), Sub(u, f))

\* The guard with the focal point forgotten.
rayGuardLensOnly(u, f) == Lt(FromInt(1), AbsNum(u))

\* Math.abs(u) > 1 && Math.abs(u - focalLen) > 1, u and focalLen in pixels.
rayGuard(u, f) == Lt(FromInt(1), AbsNum(u)) /\ Lt(FromInt(1), AbsNum(Sub(u, f)))

\* The image and the two rays, for the lens and the object found.
RayPrims(o, lens, obj) ==
  LET lensX == optTx(o, o.elements[lens].position)
      f == focalLen(o, o.elements[lens])
      objX == optTx(o, o.elements[obj].position)
      h == objH(o, o.elements[obj])
      u == Sub(lensX, objX)
      v == imageV(f, u)
      imgH == Neg(Mul(Div(v, u), h))
      imgX == Add(lensX, v)
      objTop == Sub(FromInt(cy), h)
      slope == Div(Sub(objTop, FromInt(cy)), Sub(objX, lensX))
      endX == IF Lt(FromInt(0), v) THEN imgX ELSE Add(lensX, Sub(lensX, objX))
      endY == Add(FromInt(cy), Mul(slope, Sub(endX, lensX)))
  IN  IF rayGuard(u, f)
      THEN (IF Lt(FromInt(OptPad), imgX) /\ Lt(imgX, FromInt(OptW - OptPad))
            THEN <<Prim("image", 0, <<imgX, FromInt(cy), imgX, Sub(FromInt(cy), imgH)>>)>>
            ELSE <<>>)
           \o <<Prim("ray", 1, <<objX, objTop, lensX, objTop>>)>>
           \o (IF Lt(FromInt(0), v)
               THEN <<Prim("ray", 2, <<lensX, objTop, imgX, Sub(FromInt(cy), imgH)>>)>>
               ELSE <<>>)
           \o <<Prim("ray", 3, <<objX, objTop, endX, endY>>)>>
      ELSE <<>>

renderOptics(o) ==
  LET lens == LastOf(o.elements, {"convex_lens", "concave_lens"})
      obj == LastOf(o.elements, {"object"})
  IN  [state |-> "done", threw |-> FALSE,
       prims |-> Concat([i \in 1..Len(o.elements) |-> ElementPrimsAt(o, i)])
                 \o (IF o.rays /\ lens # 0 /\ obj # 0 THEN RayPrims(o, lens, obj) ELSE <<>>)
                 \o TitlePrims(o.title, OptW, OptH - 8).prims]

(***************************************************************************)
(* The Optics specs of the model: a lens, an object, or a lens and an      *)
(* object, on the default axis or on a given one, narrow or wide.          *)
(***************************************************************************)
Benches ==
  LET Lenses ==
        {[type |-> t, position |-> p, focalLength |-> f, height |-> 0] :
           t \in {"convex_lens", "concave_lens"}, p \in {0, 5}, f \in {0, 5, 10}}
      Objects ==
        {[type |-> "object", position |-> p, focalLength |-> 0, height |-> h] :
           p \in {-20, -11, -10, -5, -1, 15}, h \in {0, 2, 4}}
  IN  {[elements |-> es, axisRange |-> r, rays |-> rays, title |-> "T"] :
         es \in {<<l>> : l \in Lenses} \cup {<<ob>> : ob \in Objects}
                \cup {<<l, ob>> : l \in Lenses, ob \in Objects},
         r \in {<<>>, <<-40, 40>>, <<-400, 400>>},
         rays \in BOOLEAN}

OptInit ==
  /\ BatchIdle
  /\ LateIdle
  /\ GeoIdle
  /\ FnIdle
  /\ optics \in Benches
  /\ opticsOut = NotCalled

RenderOptics ==
  /\ opticsOut.state = "none"
  /\ opticsOut' = renderOptics(optics)
  /\ UNCHANGED <<optics, batchVars, lateVars, geoVars, fnVars>>

OptSpec == OptInit /\ [][RenderOptics]_vars

(***************************************************************************)
(* renderForce.  A force is [direction, magnitude]; the direction is       *)
(* absent, a string (a sequence of characters) or a number, the magnitude  *)
(* a string.  The angle of the surface is given by its degrees and by the  *)
(* sine and cosine of inclineRad, here rational.  The output keeps the     *)
(* arrows: at is <<fx, fy, fx + dx, fy + dy>>.                             *)
(***************************************************************************)
\* The characters of the direction words.
Word(w) ==
  LET friction == <<"f", "r", "i", "c", "t", "i", "o", "n", "_">>
  IN  CASE w = "down" -> <<"d", "o", "w", "n">>
        [] w = "gravity" -> <<"g", "r", "a", "v", "i", "t", "y">>
        [] w = "up" -> <<"u", "p">>
        [] w = "normal" -> <<"n", "o", "r", "m", "a", "l">>
        [] w = "left" -> <<"l", "e", "f", "t">>
        [] w = "right" -> <<"r", "i", "g", "h", "t">>
        [] w = "applied" -> <<"a", "p", "p", "l", "i", "e", "d">>
        [] w = "friction_up" -> friction \o <<"u", "p">>
        [] w = "friction_down" -> friction \o <<"d", "o", "w", "n">>
        [] w = "friction_left" -> friction \o <<"l", "e", "f", "t">>
        [] w = "friction_right" -> friction \o <<"r", "i", "g", "h", "t">>
        [] w = "static_friction_up" ->
             <<"s", "t", "a", "t", "i", "c", "_">> \o friction \o <<"u", "p">>
        [] w = "sideways" -> <<"s", "i", "d", "e", "w", "a", "y", "s">>
        [] w = "" -> <<>>

\* forceLen[f.magnitude] || 60
forceLen(magnitude) ==
  CASE magnitude = "small" -> 40
    [] magnitude = "medium" -> 60
    [] magnitude = "large" -> 80
    [] OTHER -> 60

\* f.direction || ''
dirOf(f) == IF Truthy(f.direction) THEN f.direction ELSE Str(<<>>)

\* dir === word
Is(dir, w) == dir.type = "string" /\ dir.s = Word(w)

Arrow(fx, fy, dx, dy) == [threw |-> FALSE, fx |-> fx, fy |-> fy, dx |-> dx, dy |-> dy]
\* dir.includes of a direction that is a number: a TypeError.
NoMethod == [threw |-> TRUE, fx |-> NaN, fy |-> NaN, dx |-> NaN, dy |-> NaN]

\* The if chain of the incline layout.
inclineArrow(f, a) ==
  LET len == FromInt(forceLen(f.magnitude))
      dir == dirOf(f)
      h == Mul(FromInt(240), Div(a.sin, a.cos))
      fx == FromInt(188)
      fy == Sub(Sub(FromInt(230), Mul(h, Num(55, 100))), FromInt(18))
      zero == FromInt(0)
  IN  IF Is(dir, "down") \/ Is(dir, "gravity") THEN Arrow(fx, fy, zero, len)
      ELSE IF Is(dir, "up") THEN Arrow(fx, fy, zero, Neg(len))
      ELSE IF Is(dir, "normal")
      THEN Arrow(fx, fy, Neg(Mul(len, a.sin)), Neg(Mul(len, a.cos)))
      ELSE IF dir.type # "string" THEN NoMethod
      ELSE IF Includes(dir.s, Word("friction_up"))
      THEN Arrow(fx, fy, Neg(Mul(len, a.cos)), Mul(len, a.sin))
      ELSE IF Includes(dir.s, Word("friction_down"))
      THEN Arrow(fx, fy, Mul(len, a.cos), Neg(Mul(len, a.sin)))
      ELSE IF Is(dir, "left") THEN Arrow(fx, fy, Neg(len), zero)
      ELSE IF Is(dir, "right") THEN Arrow(fx, fy, len, zero)
      ELSE Arrow(fx, fy, zero, zero)

\* The if chain of the flat layout: cx = 180, cy + 40 = 180, objH = 44.
flatArrow(f) ==
  LET len == FromInt(forceLen(f.magnitude))
      dir == dirOf(f)
      cx == FromInt(180)
      zero == FromInt(0)
  IN  IF Is(dir, "down") \/ Is(dir, "gravity") THEN Arrow(cx, FromInt(180), zero, len)
      ELSE IF Is(dir, "up") \/ Is(dir, "normal") THEN Arrow(cx, FromInt(136), zero, Neg(len))
      ELSE IF Is(dir, "left") THEN Arrow(cx, FromInt(158), Neg(len), zero)
      ELSE IF dir.type # "string" THEN NoMethod
      ELSE IF Includes(dir.s, Word("friction_left")) THEN Arrow(cx, FromInt(158), Neg(len), zero)
      ELSE IF Is(dir, "right") \/ Includes(dir.s, Word("friction_right"))
                \/ Is(dir, "applied")
      THEN Arrow(cx, FromInt(158), len, zero)
      ELSE Arrow(cx, FromInt(136), zero, zero)

\* if (dx === 0 && dy === 0) return;
NoArrow(ar) == ar.dx = FromInt(0) /\ ar.dy = FromInt(0)

\* surfaceType === 'incline' && inclineAngle > 0
isIncline(surface) == surface.type = "incline" /\ surface.angle.deg > 0

\* One call of the forEach callback of the layout.
ForcePrims(fc, i) ==
  LET ar == IF isIncline(fc.surface) THEN inclineArrow(fc.forces[i], fc.surface.angle)
            ELSE flatArrow(fc.forces[i])
  IN  IF ar.threw THEN Thrown
      ELSE IF NoArrow(ar) THEN Drawn(<<>>)
      ELSE Drawn(<<Prim("arrow", i, <<ar.fx, ar.fy, Add(ar.fx, ar.dx), Add(ar.fy, ar.dy)>>)>>)

renderForce(fc) ==
  LET r == InOrder([i \in 1..Len(fc.forces) |-> ForcePrims(fc, i)]
                   \o <<TitlePrims(fc.title, 360, 280 - 8)>>)
  IN  [state |-> "done", threw |-> r.threw, prims |-> r.prims]

(***************************************************************************)
(* The Force specs of the model: one force of every direction and          *)
(* magnitude, or an odd force followed by gravity, on a flat surface and   *)
(* on an incline whose angle has sine 3/5 and cosine 4/5 (36.87 degrees).  *)
(***************************************************************************)
Forces ==
  LET Directions ==
        {Str(Word(w)) : w \in {"down", "gravity", "up", "normal", "left", "right",
                               "applied", "friction_up", "friction_down",
                               "friction_left", "friction_right",
                               "static_friction_up", "sideways", ""}}
        \cup {NoValue, Number(5)}
      One == {[direction |-> d, magnitude |-> mg] :
                d \in Directions, mg \in {"small", "medium", "large", ""}}
      Lists == {<<f>> : f \in One}
               \cup {<<[direction |-> d, magnitude |-> "small"],
                       [direction |-> Str(Word("down")), magnitude |-> "large"]>> :
                       d \in {Str(Word("sideways")), Number(5), Str(Word("up"))}}
      Surfaces ==
        {[type |-> "", angle |-> [deg |-> 0, sin |-> FromInt(0), cos |-> FromInt(1)]],
         [type |-> "incline", angle |-> [deg |-> 0, sin |-> FromInt(0), cos |-> FromInt(1)]],
         [type |-> "incline", angle |-> [deg |-> 37, sin |-> Num(3, 5), cos |-> Num(4, 5)]]}
  IN  {[surface |-> s, forces |-> fs, title |-> "T"] : s \in Surfaces, fs \in Lists}

ForceInit ==
  /\ BatchIdle
  /\ PureIdle
  /\ CellIdle /\ ClimateIdle /\ ApiIdle /\ SvgIdle
  /\ force \in Forces
  /\ forceOut = NotCalled

RenderForce ==
  /\ forceOut.state = "none"
  /\ forceOut' = renderForce(force)
  /\ UNCHANGED <<force, batchVars, pureVars, cellVars, climateVars, apiVars, svgVars>>

ForceSpec == ForceInit /\ [][RenderForce]_vars

(***************************************************************************)
(* renderCell.  structures and highlighted are the sets of the tags the    *)
(* arrays hold.  A primitive of the output is the main glyph of one        *)
(* organelle: kind is its tag, of is 1 when it is drawn in the highlight   *)
(* colours, at its centre.                                                 *)
(***************************************************************************)
renderCell(c) ==
  LET cellType == IF c.cellType = "" THEN "animal" ELSE c.cellType
      cx == 380 \div 2
      ccy == 300 \div 2 - 10
      isHL(tag) == IF tag \in c.highlighted THEN 1 ELSE 0
      Glyph(tag, x, y) == <<Prim(tag, isHL(tag), <<FromInt(x), FromInt(y)>>)>>
      Requested(tag) == IF tag \in c.structures THEN Glyph(tag, cx, ccy) ELSE <<>>
  IN  [state |-> "done", threw |-> FALSE,
       prims |->
         (IF cellType = "plant" THEN <<Prim("cell_wall", 0, <<FromInt(cx), FromInt(ccy)>>)>>
          ELSE <<>>)
         \o (IF "cell_membrane" \in c.structures \/ c.structures = {}
             THEN <<Prim("cell_membrane", 0, <<FromInt(cx), FromInt(ccy)>>)>> ELSE <<>>)
         \o (IF "nucleus" \in c.structures \/ c.structures = {}
             THEN Glyph("nucleus", cx - 20, ccy) ELSE <<>>)
         \o (IF "mitochondria" \in c.structures
             THEN Glyph("mitochondria", cx + 60, ccy - 30) ELSE <<>>)
         \o (IF "ribosome" \in c.structures
             THEN Glyph("ribosome", cx + 40, ccy + 20) ELSE <<>>)
         \o (IF "endoplasmic_reticulum" \in c.structures
             THEN Glyph("endoplasmic_reticulum", cx - 70, ccy - 20) ELSE <<>>)
         \o (IF "golgi" \in c.structures THEN Glyph("golgi", cx + 70, ccy + 10) ELSE <<>>)
         \o (IF "chloroplast" \in c.structures
             THEN Glyph("chloroplast", cx - 80, ccy + 30) ELSE <<>>)
         \o (IF "vacuole" \in c.structures THEN Glyph("vacuole", cx + 20, ccy + 20) ELSE <<>>)
         \o <<Prim("caption", 0, <<FromInt(cx), FromInt(18)>>)>>
         \o TitlePrims(c.title, 380, 300 - 8).prims]

(***************************************************************************)
(* The Cell specs of the model.                                            *)
(***************************************************************************)
Cells ==
  {[cellType |-> t, structures |-> s, highlighted |-> hl, title |-> "T"] :
     t \in {"", "animal", "plant"},
     s \in SUBSET {"cell_membrane", "nucleus", "mitochondria", "chloroplast", "vacuole",
                   "cell_wall"},
     hl \in {{}, {"nucleus"}, {"chloroplast", "vacuole", "golgi"}}}

CellInit ==
  /\ BatchIdle
  /\ PureIdle
  /\ ForceIdle /\ ClimateIdle /\ ApiIdle /\ SvgIdle
  /\ cell \in Cells
  /\ cellOut = NotCalled

RenderCell ==
  /\ cellOut.state = "none"
  /\ cellOut' = renderCell(cell)
  /\ UNCHANGED <<cell, batchVars, pureVars, forceVars, climateVars, apiVars, svgVars>>

CellSpec == CellInit /\ [][RenderCell]_vars

(***************************************************************************)
(* _renderClimateChartSVG, the chart drawn without Chart.js, with its      *)
(* coordinates.  The series hold integers.  The output holds a bar         *)
(* <<x, y, width, height>> for each precipitation value and a point        *)
(* <<x, y>> for each temperature.                                          *)
(***************************************************************************)
\* Bound of the model: the longest series of the exhaustive inputs.
MaxSeries == 3

\* safeArr(chart.months).length ? chart.months : [1, ..., 12]
monthsOr(months) == IF Len(months) > 0 THEN months ELSE [i \in 1..12 |-> i]

Values(series) == {series[i] : i \in 1..Len(series)}

\* The lower end of the temperature scale taken from the data alone.
minTOfData(temp) == SetMin(Values(temp)) - 5

\* Math.min(...temp, 0) - 5
minT(temp) == SetMin(Values(temp) \cup {0}) - 5
\* Math.max(...temp, 0) + 5
maxT(temp) == SetMax(Values(temp) \cup {0}) + 5
\* Math.max(...precip, 1)
maxP(precip) == SetMax(Values(precip) \cup {1})

climateChartSVG(ch) ==
  LET pad == 50
      plotW == 400 - 2 * pad
      plotH == 280 - 2 * pad - 20
      n == Len(monthsOr(ch.months))
      barW == Num(plotW * 6, n * 10)
      \* pad + (i + 0.5) * plotW / n, i counted from 0
      xMid(i) == Add(FromInt(pad), Num((2 * i - 1) * plotW, 2 * n))
      Bar(i) ==
        LET h == Num(ch.precipitation[i] * plotH, maxP(ch.precipitation))
        IN  Prim("bar", i, <<Sub(xMid(i), Div(barW, FromInt(2))),
                              Sub(FromInt(pad + 20 + plotH), h), barW, h>>)
      Point(i) ==
        LET lo == minT(ch.temperature)
            hi == maxT(ch.temperature)
        IN  Prim("point", i,
                 <<xMid(i),
                   Sub(FromInt(pad + 20 + plotH),
                       Num((ch.temperature[i] - lo) * plotH, hi - lo))>>)
  IN  [state |-> "done", threw |-> FALSE,
       prims |-> [i \in 1..Len(ch.precipitation) |-> Bar(i)]
                 \o [i \in 1..Len(ch.temperature) |-> Point(i)]]

(***************************************************************************)
(* The charts of the model: every series of up to MaxSeries values, and a  *)
(* series of twelve; the months are absent (twelve by default) or as many  *)
(* as the longest series.                                                  *)
(***************************************************************************)
Charts ==
  LET Series(vals) == UNION {[1..k -> vals] : k \in 0..MaxSeries}
      Twelve(a, b) == [i \in 1..12 |-> IF i \in 5..9 THEN b ELSE a]
  IN  {[months |-> ms, temperature |-> ts, precipitation |-> ps] :
         ms \in {<<>>, [i \in 1..MaxSeries |-> i]},
         ts \in Series({-10, 5, 20}) \cup {Twelve(-10, 20), Twelve(5, 20)},
         ps \in Series({0, 30, -3}) \cup {Twelve(0, 30)}}

ChartInit ==
  /\ BatchIdle
  /\ PureIdle
  /\ ForceIdle /\ CellIdle /\ ApiIdle /\ SvgIdle
  /\ climate \in Charts
  /\ climateOut = NotCalled

RenderClimateChartSVG ==
  /\ climateOut.state = "none"
  /\ climateOut' = climateChartSVG(climate)
  /\ UNCHANGED <<climate, batchVars, pureVars, forceVars, cellVars, apiVars, svgVars>>

ChartSpec == ChartInit /\ [][RenderClimateChartSVG]_vars

(***************************************************************************)
(* sanitizeSvg of functions/api/render.js.  A text is a sequence of        *)
(* characters; "BOM", "BEL" and "TICK" stand for U+FEFF, for a control     *)
(* character and for the backtick.  Each replace of the chain is a scan    *)
(* from left to right that removes the matches it meets and goes on behind *)
(* each of them.                                                           *)
(***************************************************************************)
\* Bound of the model: the pieces an input text is put together from.
MaxPieces == 3

\* The class \s, the letters and all the characters of the texts of the model.
Spaces == {" "}
Letters == {"a", "c", "g", "i", "n", "o", "p", "r", "s", "t", "v", "x", "S"}
Chars == Spaces \cup Letters \cup {"<", ">", "/", "=", "1", "\"", "'", "TICK", "BEL", "BOM"}

\* The flag i of a pattern: the letters are compared in lower case.
lower(c) == IF c = "S" THEN "s" ELSE c

\* The literal lit, in lower case, is found at position i of s.
MatchAt(s, i, lit) ==
  /\ i + Len(lit) - 1 <= Len(s)
  /\ \A k \in 1..Len(lit) : lower(s[i + k - 1]) = lit[k]

\* .replace(/lit/gi, "")
RECURSIVE RemoveAll(_, _)
RemoveAll(s, lit) ==
  IF s = <<>> THEN <<>>
  ELSE IF MatchAt(s, 1, lit) THEN RemoveAll(SubSeq(s, Len(lit) + 1, Len(s)), lit)
  ELSE <<Head(s)>> \o RemoveAll(Tail(s), lit)

\* .replace(/<script[\s\S]*?<\/script>/gi, ""): from a <script to the first
\* </script> behind it.
RECURSIVE RemoveScripts(_)
RemoveScripts(s) ==
  LET open == <<"<", "s", "c", "r", "i", "p", "t">>
      close == <<"<", "/", "s", "c", "r", "i", "p", "t", ">">>
      ends == {j \in 8..Len(s) : MatchAt(s, j, close)}
  IN  IF s = <<>> THEN <<>>
      ELSE IF MatchAt(s, 1, open) /\ ends # {}
      THEN RemoveScripts(SubSeq(s, SetMin(ends) + 9, Len(s)))
      ELSE <<Head(s)>> \o RemoveScripts(Tail(s))

\* The length of the longest run of characters of the class from position i.
Run(s, i, class) ==
  SetMax({k \in 0..(Len(s) - i + 1) : \A j \in i..(i + k - 1) : s[j] \in class})

\* The length of the match of /\son[a-z]+\s*=\s*VALUE/i at the head of s (0:
\* no match); VALUE is "[^"]*" or '[^']*' for a quote and [^\s>]+ for "".
AttrEnd(s, quote) ==
  LET name == Run(s, 4, Letters)
      eq == 4 + name + Run(s, 4 + name, Spaces)
      val == eq + 1 + Run(s, eq + 1, Spaces)
      quoted == Run(s, val + 1, Chars \ {quote})
      bare == Run(s, val, Chars \ (Spaces \cup {">"}))
  IN  IF ~(Len(s) >= 5 /\ s[1] \in Spaces /\ MatchAt(s, 2, <<"o", "n">>) /\ name >= 1
           /\ eq <= Len(s) /\ s[eq] = "=")
      THEN 0
      ELSE IF quote = ""
      THEN (IF bare >= 1 THEN val + bare - 1 ELSE 0)
      ELSE IF val <= Len(s) /\ s[val] = quote /\ val + quoted + 1 <= Len(s)
      THEN val + quoted + 1
      ELSE 0

\* One of the three .replace(/\son[a-z]+\s*=\s*VALUE/gi, "").
RECURSIVE RemoveOnAttrs(_, _)
RemoveOnAttrs(s, quote) ==
  IF s = <<>> THEN <<>>
  ELSE IF AttrEnd(s, quote) > 0
  THEN RemoveOnAttrs(SubSeq(s, AttrEnd(s, quote) + 1, Len(s)), quote)
  ELSE <<Head(s)>> \o RemoveOnAttrs(Tail(s), quote)

\* .trim()
Trim(s) ==
  LET keep == {i \in 1..Len(s) : s[i] \notin Spaces}
  IN  IF keep = {} THEN <<>> ELSE SubSeq(s, SetMin(keep), SetMax(keep))

\* /<svg[\s>]/i.test(svg)
looksLikeSvg(s) ==
  \E i \in 1..Len(s) :
    MatchAt(s, i, <<"<", "s", "v", "g">>) /\ i + 4 <= Len(s)
      /\ s[i + 4] \in Spaces \cup {">"}

sanitizeSvg(svgIn) ==
  LET s1 == IF svgIn # <<>> /\ Head(svgIn) = "BOM" THEN Tail(svgIn) ELSE svgIn
      s2 == SelectSeq(s1, LAMBDA c : c # "BEL")
      s3 == RemoveAll(RemoveAll(s2, <<"TICK", "TICK", "TICK", "s", "v", "g">>), <<"TICK", "TICK", "TICK">>)
      s4 == RemoveScripts(s3)
      s5 == RemoveOnAttrs(RemoveOnAttrs(RemoveOnAttrs(s4, "\""), "'"), "")
      svg == Trim(s5)
  IN  IF looksLikeSvg(svg) THEN svg ELSE <<>>

(***************************************************************************)
(* The texts of the model: one of the heads, and up to MaxPieces of the    *)
(* pieces behind it.                                                       *)
(***************************************************************************)
Texts ==
  LET Heads ==
        {<<>>,
         <<"<", "s", "v", "g", ">">>,
         <<"<", "s", "v", "g">>,
         <<"BOM", "<", "s", "v", "g", ">">>}
      Pieces ==
        {<<"<", "s", "c", "r">>,
         <<"<", "s", "c", "r", "i", "p", "t", ">", "a", "<", "/", "s", "c", "r", "i", "p", "t", ">">>,
         <<"i", "p", "t", ">", "a", "<", "/", "s", "c", "r", "i", "p", "t", ">">>,
         <<"<", "S", "c", "r", "i", "p", "t", ">">>,
         <<"<", "/", "s", "c", "r", "i", "p", "t", ">">>,
         <<" ", "o", "n", "x">>,
         <<" ", "o", "n", "a", "=", "1", " ">>,
         <<"=", "1">>,
         <<" ", "o", "n", "x", "=", "\"", "a", "\"">>,
         <<" ", "o", "n", "x", "=", "'", "a", "'">>,
         <<"a">>,
         <<">">>,
         <<"TICK", "TICK", "TICK">>,
         <<"TICK", "TICK", "TICK", "s", "v", "g">>,
         <<"BEL">>,
         <<"<", "/", "s", "v", "g", ">">>}
  IN  {h \o Concat(ps) : h \in Heads, ps \in UNION {[1..k -> Pieces] : k \in 0..MaxPieces}}

SvgInit ==
  /\ BatchIdle
  /\ PureIdle
  /\ ForceIdle /\ CellIdle /\ ClimateIdle /\ ApiIdle
  /\ svgInput \in Texts
  /\ sanitized = <<>>

\* sanitizeSvg is applied, first to the input and then to its own result.
Sanitize ==
  /\ Len(sanitized) < 2
  /\ sanitized' = Append(sanitized,
                         sanitizeSvg(IF sanitized = <<>> THEN svgInput ELSE sanitized[1]))
  /\ UNCHANGED <<svgInput, batchVars, pureVars, forceVars, cellVars, climateVars, apiVars>>

SvgSpec == SvgInit /\ [][Sanitize]_vars

(***************************************************************************)
(* onRequestPost of functions/api/render.js.  The request holds the        *)
(* figure_spec of the payload and the environment; what the two direct     *)
(* services and the AI renderer answer is chosen at the step that asks     *)
(* them.  The handler records the models it called, the errors of the      *)
(* calls, the error that left callAiSvgRendererWithFallback and the        *)
(* response.                                                               *)
(***************************************************************************)
\* sanitizeText trims: " " is the one text of the model made of white space.
sanitizeText(value) == IF value = " " THEN "" ELSE value

\* a || b
OrElse(a, b) == IF a # "" THEN a ELSE b

DefaultModel == "gemini-3-flash-preview"

NoError == [status |-> 0, message |-> <<>>]

\* null
NoFigure == [mode |-> "null", svg |-> <<>>, smiles |-> "", tikz |-> "", python |-> "",
             description |-> ""]

\* What a renderer gives back: a text, or an error it throws.
Rendered(svg, renderer) == [threw |-> FALSE, error |-> NoError, svg |-> svg, renderer |-> renderer]
Failed(error) == [threw |-> TRUE, error |-> error, svg |-> <<>>, renderer |-> ""]

NotRendered == Rendered(<<>>, "")

NoResponse == [status |-> 0, ok |-> FALSE, svg |-> <<>>, renderer |-> "", model |-> ""]

HandlerStart ==
  [pc |-> "start", figureSpec |-> NoFigure, model |-> "", fallbackModel |-> "",
   calls |-> <<>>, errors |-> <<>>, thrown |-> NoError, rendered |-> NotRendered,
   modelUsed |-> "", response |-> NoResponse]

\* Lines 286-288: the figure of the mode svg, of the sanitized SVG.
svgFigure(svg, description) ==
  IF svg = <<>> /\ description = "" THEN NoFigure
  ELSE [NoFigure EXCEPT !.mode = "svg", !.svg = svg, !.description = description]

\* The modes of the model hold one word: mode.includes(w) is mode = w.
normalizeFigureSpec(input) ==
  LET mode == sanitizeText(OrElse(input.mode, "svg"))
      description == sanitizeText(input.description)
      smiles == sanitizeText(input.smiles)
      tikz == sanitizeText(input.tikz)
      python == sanitizeText(input.python)
  IN  IF ~input.object THEN NoFigure
      ELSE IF mode = "smiles"
      THEN (IF smiles = "" /\ description = "" THEN NoFigure
            ELSE [NoFigure EXCEPT !.mode = "smiles_rdkit", !.smiles = smiles,
                                  !.description = description])
      ELSE IF mode \in {"tikz", "matplotlib", "python"}
      THEN (IF tikz = "" /\ python = "" /\ description = "" THEN NoFigure
            ELSE [NoFigure EXCEPT !.mode = "tikz_or_matplotlib", !.tikz = tikz,
                                  !.python = python, !.description = description])
      ELSE svgFigure(sanitizeSvg(input.svg), description)

\* The function runs without a DOMParser: normalizeSvgTextNodes returns
\* sanitizeSvg of its input (line 139), and appendScientificHintsToSvg returns
\* that text ("" when it is empty, line 324).
appendScientificHintsToSvg(svgIn) == sanitizeSvg(svgIn)

\* Each of the three templates is a text that starts with <svg and a blank.
buildGuaranteedDiagramSvg(mode) ==
  <<"<", "s", "v", "g", " ", "x", "=", "1", ">", "a", "<", "/", "s", "v", "g", ">">>

\* renderBySmiles and renderByMatplotlibScript: the text asked for is empty, the
\* service answers with a failure, or its text is no SVG.
\* if (!safe) throw ...; return {svg: safe, renderer} (lines 399, 424, 472).
validSvg(safe, renderer) ==
  IF safe = <<>> THEN Failed([status |-> 0, message |-> <<"no", "valid", "svg">>])
  ELSE Rendered(safe, renderer)

renderByService(asked, reply, renderer) ==
  IF sanitizeText(asked) = "" THEN Failed([status |-> 0, message |-> <<"empty">>])
  ELSE IF ~reply.ok THEN Failed([status |-> 0, message |-> <<"failed">>])
  ELSE validSvg(sanitizeSvg(reply.text), renderer)

callAiSvgRenderer(outcome) ==
  IF outcome.threw THEN outcome
  ELSE validSvg(appendScientificHintsToSvg(outcome.svg), "ai-svg-renderer")

\* The test that retries after every error.
shouldRetryAlways(error) == TRUE

\* A message is a sequence of words; the pattern has the flag i.
shouldRetryWithFallbackModel(error) ==
  LET message == [i \in 1..Len(error.message) |->
                    IF error.message[i] = "Service" THEN "service"
                    ELSE IF error.message[i] = "Unavailable" THEN "unavailable"
                    ELSE error.message[i]]
      at == 1..Len(message)
  IN  IF error.status = 503 THEN TRUE
      ELSE \/ \E i \in at : message[i] \in {"no-channel", "distributor"}
           \/ \E i \in at : \E j \in at :
                i < j /\ message[i] = "model" /\ message[j] = "unavailable"
           \/ \E i \in at :
                i < Len(message) /\ message[i] = "service" /\ message[i + 1] = "unavailable"

\* jsonResponse({ok: true, svg, renderer, ...})
Answer(h, svg, renderer) ==
  [h EXCEPT !.pc = "done",
            !.response = [status |-> 200, ok |-> TRUE, svg |-> svg, renderer |-> renderer,
                          model |-> h.modelUsed]]

(***************************************************************************)
(* The requests and the answers of the services.                           *)
(***************************************************************************)
SvgTexts ==
  {<<>>,
   <<"<", "s", "v", "g", ">", "a", "<", "/", "s", "v", "g", ">">>,
   <<"<", "s", "v", "g", " ", "o", "n", "x", " ", "o", "n", "a", "=", "1", " ", "=", "1">>,
   <<"<", "s", "c", "r", "<", "s", "c", "r", "i", "p", "t", ">", "<", "/", "s", "c", "r",
     "i", "p", "t", ">", "i", "p", "t", ">", "<", "s", "v", "g", ">", "<", "/", "s", "c",
     "r", "i", "p", "t", ">">>}

Errors ==
  {[status |-> 0, message |-> <<"rate", "limit">>],
   [status |-> 503, message |-> <<"overloaded">>],
   [status |-> 0, message |-> <<"Service", "Unavailable">>],
   [status |-> 0, message |-> <<"model", "gpt", "unavailable">>],
   [status |-> 0, message |-> <<"unavailable", "model">>],
   [status |-> 500, message |-> <<"distributor">>]}

Replies == {[ok |-> FALSE, text |-> <<>>]} \cup {[ok |-> TRUE, text |-> t] : t \in SvgTexts}

AiOutcomes == {Failed(e) : e \in Errors} \cup {Rendered(t, "") : t \in SvgTexts}

Figures ==
  LET Blank0 == [object |-> TRUE, mode |-> "", svg |-> <<>>, smiles |-> "", tikz |-> "",
                 python |-> "", description |-> ""]
  IN  {[Blank0 EXCEPT !.object = FALSE]}
        \cup {[Blank0 EXCEPT !.mode = m, !.svg = t, !.description = d] :
                m \in {"", "svg", "chart"}, t \in SvgTexts, d \in {"", "a cell"}}
        \cup {[Blank0 EXCEPT !.mode = "smiles", !.smiles = s, !.description = d] :
                s \in {"", "CCO"}, d \in {"", "ethanol"}}
        \cup {[Blank0 EXCEPT !.mode = "matplotlib", !.tikz = t, !.python = p, !.description = d] :
                t \in {"", "draw"}, p \in {"", "plot"}, d \in {"", "a parabola"}}

Environments ==
  [OPENAI_API_KEY : {"", "sk"},
   RENDERER_MODEL : {"", "gpt"},
   RENDERER_FALLBACK_MODEL : {"", " ", "gpt"}]

ApiInit ==
  /\ BatchIdle
  /\ PureIdle
  /\ ForceIdle /\ CellIdle /\ ClimateIdle /\ SvgIdle
  /\ request \in [figure_spec : Figures, env : Environments]
  /\ handler = HandlerStart

ApiQuiet == UNCHANGED <<request, batchVars, pureVars, forceVars, cellVars, climateVars, svgVars>>

\* Lines 542-553, 556 and 571: no figure is answered with status 400, an SVG
\* of the request is passed through, and the mode chooses the direct service.
afterNormalize(h, figureSpec) ==
  IF figureSpec = NoFigure
  THEN [h EXCEPT !.pc = "done", !.response = [NoResponse EXCEPT !.status = 400]]
  ELSE IF figureSpec.mode = "svg" /\ figureSpec.svg # <<>>
  THEN [h EXCEPT !.figureSpec = figureSpec, !.pc = "answer",
                 !.rendered = Rendered(figureSpec.svg, "passthrough")]
  ELSE [h EXCEPT !.figureSpec = figureSpec,
                 !.pc = IF \/ figureSpec.mode = "smiles_rdkit"
                           \/ figureSpec.mode = "tikz_or_matplotlib" /\ figureSpec.python # ""
                        THEN "direct" ELSE "env"]

\* Lines 538-540.
Post ==
  /\ handler.pc = "start"
  /\ handler' = afterNormalize(handler, normalizeFigureSpec(request.figure_spec))
  /\ ApiQuiet

\* The failure of a direct service is caught and the handler goes on (lines
\* 566 and 581).
afterDirect(h, drawn) ==
  IF drawn.threw THEN [h EXCEPT !.pc = "env"]
  ELSE [h EXCEPT !.pc = "answer", !.rendered = drawn]

\* Lines 555-584: the direct service of the mode is asked.
Direct ==
  /\ handler.pc = "direct"
  /\ \E reply \in Replies :
       handler' =
         afterDirect(handler,
                     IF handler.figureSpec.mode = "smiles_rdkit"
                     THEN renderByService(handler.figureSpec.smiles, reply, "cactus-smiles")
                     ELSE renderByService(handler.figureSpec.python, reply,
                                          "quickchart-matplotlib"))
  /\ ApiQuiet

\* Lines 586-601: the models of the environment; without an API key the
\* built-in diagram is the answer.
Configure ==
  /\ handler.pc = "env"
  /\ handler' =
       IF request.env.OPENAI_API_KEY = ""
       THEN Answer(handler, buildGuaranteedDiagramSvg(handler.figureSpec.mode),
                   "guaranteed-no-api-key")
       ELSE [handler EXCEPT
               !.pc = "primary",
               !.model = sanitizeText(OrElse(request.env.RENDERER_MODEL, DefaultModel)),
               !.fallbackModel =
                 sanitizeText(OrElse(request.env.RENDERER_FALLBACK_MODEL, DefaultModel))]
  /\ ApiQuiet

\* callAiSvgRendererWithFallback left with the error: the catch of lines
\* 613-624 answers with the built-in diagram.
Propagate(h, error) ==
  Answer([h EXCEPT !.errors = Append(@, error), !.thrown = error],
         buildGuaranteedDiagramSvg(h.figureSpec.mode), "guaranteed-on-render-error")

\* Lines 504-512: the result of the call with the primary model, and the
\* decision to retry.
afterPrimary(h, drawn) ==
  IF ~drawn.threw
  THEN [h EXCEPT !.pc = "answer", !.rendered = drawn, !.modelUsed = h.model]
  ELSE IF \/ h.fallbackModel = ""
          \/ h.fallbackModel = h.model
          \/ ~shouldRetryWithFallbackModel(drawn.error)
  THEN Propagate(h, drawn.error)
  ELSE [h EXCEPT !.errors = Append(@, drawn.error), !.pc = "fallback"]

\* Lines 497-503: the call with the primary model.
CallPrimary ==
  /\ handler.pc = "primary"
  /\ \E outcome \in AiOutcomes :
       handler' = afterPrimary([handler EXCEPT !.calls = Append(@, handler.model)],
                               callAiSvgRenderer(outcome))
  /\ ApiQuiet

\* Lines 521-525: the result of the call with the fallback model; its error
\* leaves the function.
afterFallback(h, drawn) ==
  IF ~drawn.threw
  THEN [h EXCEPT !.pc = "answer", !.rendered = drawn, !.modelUsed = h.fallbackModel]
  ELSE Propagate(h, drawn.error)

\* Lines 514-519: the one call with the fallback model.
CallFallback ==
  /\ handler.pc = "fallback"
  /\ \E outcome \in AiOutcomes :
       handler' = afterFallback([handler EXCEPT !.calls = Append(@, handler.fallbackModel)],
                                callAiSvgRenderer(outcome))
  /\ ApiQuiet

\* Lines 547-552, 559-565, 574-580 and 626-635: the answer with the SVG of the
\* source that succeeded.
Respond ==
  /\ handler.pc = "answer"
  /\ handler' = Answer(handler, appendScientificHintsToSvg(handler.rendered.svg),
                       handler.rendered.renderer)
  /\ ApiQuiet

ApiNext == Post \/ Direct \/ Configure \/ CallPrimary \/ CallFallback \/ Respond

ApiSpec == ApiInit /\ [][ApiNext]_vars

(***************************************************************************)
(* Vocabulary of the properties.                                           *)
(***************************************************************************)
IsGraphic(n) == n.tag \in {"svg", "wrapper", "mermaid", "desc"}
IsErrorBox(n) == n.tag \in {"error", "failed"}

NumGraphics(c) == Cardinality({i \in 1..Len(children[c]) : IsGraphic(children[c][i])})
NumErrorBoxes(c) == Cardinality({i \in 1..Len(children[c]) : IsErrorBox(children[c][i])})

Parses(c) == diagram[c].json # "bad"
NoPending(c) == \A i \in 1..Len(children[c]) : children[c][i].pending = "none"

\* Invocation r has gone past container c.
Passed(r, c) == pc[r] = "done" \/ (pc[r] = "await" /\ c < pos[r])
NoneInFlight == \A q \in Invocations : pc[q] \in {"idle", "done"}
SomeCompleted == \E q \in Invocations : pc[q] = "done"

(***************************************************************************)
(* C1.  Idempotence of the batch driver: once renderAllDiagrams has run to *)
(* completion with no run in flight, every container whose spec parses has *)
(* its flag set, and a further call attaches nothing, changes nothing and  *)
(* completes without suspending: each diagram is rendered exactly once.    *)
(***************************************************************************)
C1_SecondPassStep ==
  (NoneInFlight /\ SomeCompleted /\ \E r \in Invocations : Invoke(r))
    => /\ NoneInFlight'
       /\ \A c \in Containers :
            Parses(c) => children'[c] = children[c] /\ rendered'[c] = rendered[c]

C1_AllMarked ==
  (NoneInFlight /\ SomeCompleted) => \A c \in Containers : Parses(c) => rendered[c]

C1_Idempotent == [](C1_AllMarked) /\ [][C1_SecondPassStep]_vars

\* Every caller has completed a pass, and each container holds the single
\* output of a single render: the passes ran one after the other.
C1_Witness ==
  /\ \A r \in Invocations : pc[r] = "done"
  /\ \A c \in Containers :
       Parses(c) /\ rendered[c] /\ Len(children[c]) = 1 /\ NumGraphics(c) = 1

(***************************************************************************)
(* C2.  Under every interleaving of two invocations, no container ever     *)
(* receives more than one rendered output.                                 *)
(***************************************************************************)
C2_AtMostOneOutput ==
  \A c \in Containers : NumGraphics(c) <= 1 /\ NumErrorBoxes(c) <= 1

(***************************************************************************)
(* C3.  Every container the batch driver has processed has its rendered    *)
(* flag set, also when the failure was caught in the batch driver itself.  *)
(***************************************************************************)
C3_ProcessedIsMarked ==
  \A r \in Invocations : \A c \in Containers : Passed(r, c) => rendered[c]

(***************************************************************************)
(* C4.  Failure isolation: renderAllDiagrams never rejects to its caller;  *)
(* an invocation that has gone past a container has processed it (the flag *)
(* is set, or the unparsable attribute was replaced by the failure box),   *)
(* whatever failed before it; and every container whose renderer threw     *)
(* holds a visible error box.                                              *)
(***************************************************************************)
ChartThrewAt(c, i) ==
  /\ diagram[c].type = "geographic"
  /\ children[c][i].tag = "wrapper"
  /\ children[c][i].canvas = "blank"

C4_FailureIsolation ==
  /\ \A r \in Invocations : pc[r] # "rejected"
  /\ \A r \in Invocations : \A c \in Containers :
       Passed(r, c) => \/ rendered[c]
                       \/ ~Parses(c) /\ children[c] = <<FailedDiv>>
  /\ \A c \in Containers :
       (rendered[c] /\ diagram[c] = UnknownNullSpec) => NumErrorBoxes(c) >= 1
  /\ \A c \in Containers : \A i \in 1..Len(children[c]) :
       ChartThrewAt(c, i) => i < Len(children[c]) /\ children[c][i + 1].tag = "error"

\* A pass has completed over a document whose first container failed (its
\* attribute does not parse, or its renderer threw) and whose next container
\* was rendered.
C4_Witness ==
  /\ \E r \in Invocations : pc[r] = "done"
  /\ \E c \in Containers :
       /\ c + 1 \in Containers
       /\ \/ ~Parses(c) /\ children[c] = <<FailedDiv>>
          \/ diagram[c] = UnknownNullSpec /\ NumErrorBoxes(c) = 1
          \/ Len(children[c]) = 2 /\ ChartThrewAt(c, 1)
       /\ rendered[c + 1] /\ NumGraphics(c + 1) = 1 /\ NumErrorBoxes(c + 1) = 0

(***************************************************************************)
(* C5.  After a render call a container holds a graphic root or an error   *)
(* placeholder, never both.                                                *)
(***************************************************************************)
C5_GraphicOrErrorNotBoth ==
  \A c \in Containers : ~(NumGraphics(c) >= 1 /\ NumErrorBoxes(c) >= 1)

(***************************************************************************)
(* C6.  A container is marked rendered, and the next container is started, *)
(* only after the collaborator's asynchronous work for it has completed.   *)
(***************************************************************************)
C6_AwaitsCollaborator ==
  \A c \in Containers :
    (rendered[c] \/ \E r \in Invocations : Passed(r, c)) => NoPending(c)

(***************************************************************************)
(* C7.  When a collaborator is present but fails, the renderer falls back  *)
(* to its own construction: the container ends with a usable visible       *)
(* diagram, never with an error placeholder or an empty graphic.           *)
(***************************************************************************)
DelegatesToCollaborator(c) ==
  \/ /\ diagram[c].type = "molecule"
     /\ diagram[c].smiles # ""
     /\ "SmilesDrawer" \in present
  \/ /\ diagram[c].type = "process_flow"
     /\ Len(diagram[c].nodes) > 0
     /\ ~HasNull(diagram[c].nodes)
     /\ "mermaid" \in present

Usable(n) ==
  \/ n.tag = "svg" /\ n.prims > 0
  \/ n.tag = "wrapper" /\ (n.canvas = "drawn" \/ n.text # "")
  \/ n.tag = "mermaid" /\ n.canvas = "drawn"

C7_CollaboratorFailureFallsBack ==
  \A c \in Containers :
    (rendered[c] /\ NoPending(c) /\ DelegatesToCollaborator(c))
      => \A i \in 1..Len(children[c]) : Usable(children[c][i])

(***************************************************************************)
(* C8.  With the molecule-drawing collaborator absent, a Molecule spec     *)
(* with a non-empty notation gives a visible text fallback showing the     *)
(* notation: never an empty container, never an error placeholder.         *)
(***************************************************************************)
MoleculeWithoutDrawer(c) ==
  /\ diagram[c].json = "obj"
  /\ diagram[c].type = "molecule"
  /\ diagram[c].smiles # ""
  /\ "SmilesDrawer" \notin present

C8_MoleculeTextFallback ==
  \A c \in Containers :
    MoleculeWithoutDrawer(c)
      => /\ rendered[c] => Len(children[c]) >= 1
         /\ \A i \in 1..Len(children[c]) :
              /\ children[c][i].tag = "wrapper"
              /\ children[c][i].canvas = "hidden"
              /\ children[c][i].text = "SMILES: " \o diagram[c].smiles

C8_Witness ==
  \E c \in Containers :
    MoleculeWithoutDrawer(c) /\ rendered[c] /\ Len(children[c]) = 1

(***************************************************************************)
(* C9.  A spec whose type is none of the known tags goes to the generic    *)
(* renderer and, for every shape of its data (null entries of the element  *)
(* list included), never produces the error placeholder.                   *)
(***************************************************************************)
UnknownType(c) ==
  /\ diagram[c].json = "obj"
  /\ diagram[c].type # ""
  /\ diagram[c].type \notin KnownTypes

C9_UnknownTypeNeverError ==
  \A c \in Containers : UnknownType(c) => NumErrorBoxes(c) = 0

(***************************************************************************)
(* C10.  The generic renderer produces the plain-text placeholder whenever *)
(* the spec has no elements, with or without a description: it never       *)
(* attaches a blank canvas.                                                *)
(***************************************************************************)
C10_NoElementsGivesText ==
  \A c \in Containers :
    ((UnknownType(c) \/ (diagram[c].json = "obj" /\ diagram[c].type = "generic_svg"))
       /\ Len(diagram[c].elements) = 0)
      => \A i \in 1..Len(children[c]) : children[c][i].tag = "desc"

(***************************************************************************)
(* C19.  Every renderer output includes the spec's title, when the spec    *)
(* has one, as a caption along the bottom edge: every graphic a renderer   *)
(* attached for a spec with a title carries that title at its bottom.      *)
(***************************************************************************)
C19_TitleAtBottom ==
  \A c \in Containers :
    (Parses(c) /\ diagram[c].title # "") =>
      \A i \in 1..Len(children[c]) :
        IsGraphic(children[c][i]) => children[c][i].bottom = diagram[c].title

(***************************************************************************)
(* Vocabulary of the geometry properties.                                  *)
(***************************************************************************)
Resolves(id) == Declared(geometry.points, id)

GeoCount(kind, i) ==
  Cardinality({k \in 1..Len(geoOut.prims) :
                 geoOut.prims[k].kind = kind /\ geoOut.prims[k].of = i})

OneIf(b) == IF b THEN 1 ELSE 0

HasDangling ==
  \/ \E i \in 1..Len(geometry.segments) :
       ~Resolves(geometry.segments[i][1]) \/ ~Resolves(geometry.segments[i][2])
  \/ \E i \in 1..Len(geometry.auxiliary) :
       ~Resolves(geometry.auxiliary[i].from) \/ ~Resolves(geometry.auxiliary[i].to)
  \/ \E i \in 1..Len(geometry.labels) :
       ~Resolves(geometry.labels[i].from) \/ ~Resolves(geometry.labels[i].to)
  \/ \E i \in 1..Len(geometry.circles) : ~Resolves(geometry.circles[i].center)
  \/ \E i \in 1..Len(geometry.angles) : ~Resolves(geometry.angles[i].vertex)

\* The angle has its vertex and two edges to draw between.
AngleDrawable(i) ==
  /\ Resolves(geometry.angles[i].vertex)
  /\ Len(connPts(geometry, geometry.angles[i].vertex)) >= 2

(***************************************************************************)
(* C11.  Dangling-reference tolerance: a Geometry spec with a reference to *)
(* an undeclared point renders without throwing; a segment, an auxiliary   *)
(* line, an edge label and a circle are drawn exactly when their           *)
(* references resolve, an angle mark exactly when its vertex resolves and  *)
(* two of its edges do, and every declared point is drawn.                 *)
(***************************************************************************)
C11_DanglingTolerated ==
  (geoOut.state = "done" /\ HasDangling) =>
    /\ ~geoOut.threw
    /\ \A i \in 1..Len(geometry.segments) :
         GeoCount("segment", i) =
           OneIf(Resolves(geometry.segments[i][1]) /\ Resolves(geometry.segments[i][2]))
    /\ \A i \in 1..Len(geometry.auxiliary) :
         GeoCount("auxiliary", i) =
           OneIf(Resolves(geometry.auxiliary[i].from) /\ Resolves(geometry.auxiliary[i].to))
    /\ \A i \in 1..Len(geometry.labels) :
         GeoCount("edgelabel", i) =
           OneIf(Resolves(geometry.labels[i].from) /\ Resolves(geometry.labels[i].to))
    /\ \A i \in 1..Len(geometry.circles) :
         GeoCount("circle", i) = OneIf(Resolves(geometry.circles[i].center))
    /\ \A i \in 1..Len(geometry.angles) :
         GeoCount("bracket", i) + GeoCount("arc", i) =
           OneIf(AngleDrawable(i) /\ geometry.angles[i].mark)
    /\ \A i \in 1..Len(geometry.points) :
         GeoCount("point", i) = 1 /\ GeoCount("pointlabel", i) = 1

\* The same, for the specs whose angle values are texts.
C11_TextValues ==
  (\A i \in 1..Len(geometry.angles) : geometry.angles[i].value.type # "number")
    => C11_DanglingTolerated

Digits == {"0", "1", "2", "3", "4", "5", "6", "7", "8", "9"}

\* The declared value is a number of degrees, as a number or as its text.
NumericValue(v) ==
  \/ v.type = "number"
  \/ v.type = "string" /\ v.s # <<>> /\ \A k \in 1..Len(v.s) : v.s[k] \in Digits

Denotes90(v) ==
  \/ v.type = "number" /\ v.v = 90
  \/ v.type = "string" /\ v.s = <<"9", "0">>

(***************************************************************************)
(* C12.  Angle-mark glyph choice: a marked angle whose vertex has two      *)
(* adjacent edges gets exactly one glyph: the right-angle bracket when its *)
(* declared value denotes 90 degrees, the circular arc for any other       *)
(* numeric value, given as a number or as text.                            *)
(***************************************************************************)
C12_GlyphChoice ==
  geoOut.state = "done" =>
    \A i \in 1..Len(geometry.angles) :
      (geometry.angles[i].mark /\ AngleDrawable(i)
         /\ NumericValue(geometry.angles[i].value))
        => /\ GeoCount("bracket", i) + GeoCount("arc", i) = 1
           /\ GeoCount("bracket", i) = OneIf(Denotes90(geometry.angles[i].value))

\* The pixel positions the output gives to the declared points, and the
\* extents (centre - radius, centre + radius) it gives to the circles.
GeoPixels(axis) ==
  {geoOut.prims[k].at[axis] :
     k \in {j \in 1..Len(geoOut.prims) : geoOut.prims[j].kind \in {"point", "circle"}}}
  \cup {Sub(geoOut.prims[k].at[axis], geoOut.prims[k].at[3]) :
     k \in {j \in 1..Len(geoOut.prims) : geoOut.prims[j].kind = "circle"}}
  \cup {Add(geoOut.prims[k].at[axis], geoOut.prims[k].at[3]) :
     k \in {j \in 1..Len(geoOut.prims) : geoOut.prims[j].kind = "circle"}}

Lowest(S) == CHOOSE m \in S : \A e \in S : Le(m, e)
Highest(S) == CHOOSE m \in S : \A e \in S : Le(e, m)

PointPx(i) ==
  geoOut.prims[CHOOSE k \in 1..Len(geoOut.prims) :
                 geoOut.prims[k].kind = "point" /\ geoOut.prims[k].of = i].at

GeoRendered == geoOut.state = "done" /\ ~geoOut.threw /\ Len(geometry.points) >= 1

\* One scale for both axes, and Y flipped: between any two points the pixel
\* offsets are the semantic offsets times one positive factor, negated in y.
C15_UniformFlipped ==
  GeoRendered =>
    \A i, j \in 1..Len(geometry.points) :
      LET p == geometry.points[i]
          q == geometry.points[j]
          dx == Sub(PointPx(j)[1], PointPx(i)[1])
          dy == Sub(PointPx(j)[2], PointPx(i)[2])
      IN  /\ Mul(dx, FromInt(q.y - p.y)) = Neg(Mul(dy, FromInt(q.x - p.x)))
          /\ q.x > p.x => Lt(FromInt(0), dx)
          /\ q.y > p.y => Lt(dy, FromInt(0))
          /\ q.x = p.x => dx = FromInt(0)
          /\ q.y = p.y => dy = FromInt(0)

C15_Inside ==
  GeoRendered =>
    /\ \A v \in GeoPixels(1) : Le(FromInt(GeoPad), v) /\ Le(v, FromInt(GeoW - GeoPad))
    /\ \A v \in GeoPixels(2) : Le(FromInt(GeoPad), v) /\ Le(v, FromInt(GeoH - GeoPad))

C15_Centred ==
  GeoRendered =>
    /\ Add(Lowest(GeoPixels(1)), Highest(GeoPixels(1))) = FromInt(GeoW)
    /\ Add(Lowest(GeoPixels(2)), Highest(GeoPixels(2))) = FromInt(GeoH)

(***************************************************************************)
(* C15.  Geometry coordinate mapping: for every Geometry spec with at      *)
(* least one point, one scale factor serves both axes, Y is flipped, every *)
(* declared point and every extent of a circle with a declared centre maps *)
(* inside the padded canvas, and the bounding box is centred in it.        *)
(***************************************************************************)
C15_GeometryMapping == C15_UniformFlipped /\ C15_Inside /\ C15_Centred

(***************************************************************************)
(* Vocabulary of the function graph properties.                            *)
(***************************************************************************)
\* The curve paths: those appended to the output and the one being built.
Paths ==
  {sampler.pathD}
  \cup {sampler.svg[k].at :
          k \in {j \in 1..Len(sampler.svg) : sampler.svg[j].kind = "path"}}

InPaddedCanvas(c) ==
  /\ Le(FromInt(FnPad), c.px) /\ Le(c.px, FromInt(FnW - FnPad))
  /\ Le(FromInt(FnPad), c.py) /\ Le(c.py, FromInt(FnH - FnPad))

(***************************************************************************)
(* C13.  Range safety of the function graph: with xRange = [a, b], a # b,  *)
(* every point written into a curve path lies inside the padded canvas:    *)
(* x in [pad, W - pad] and y in [pad, H - pad].                            *)
(***************************************************************************)
C13_RangeSafe ==
  RangeOr(graph.xRange)[1] # RangeOr(graph.xRange)[2] =>
    \A p \in Paths : \A i \in 1..Len(p) : InPaddedCanvas(p[i])

AbsentOrFlat(r) == Len(r) # 2 \/ r[1] = r[2]

(***************************************************************************)
(* C16.  Degenerate or absent ranges never produce NaN or Infinity: when   *)
(* xRange or yRange is absent or has no extent, every coordinate the       *)
(* renderer emits (the axes, the points of the curve paths) is finite.     *)
(***************************************************************************)
C16_FiniteCoordinates ==
  (AbsentOrFlat(graph.xRange) \/ AbsentOrFlat(graph.yRange)) =>
    /\ \A k \in 1..Len(sampler.svg) :
         sampler.svg[k].kind = "axis" =>
           \A j \in 1..Len(sampler.svg[k].at) : isFinite(sampler.svg[k].at[j])
    /\ \A p \in Paths : \A i \in 1..Len(p) : isFinite(p[i].px) /\ isFinite(p[i].py)

\* The renderer is at the head of a loop whose condition holds and whose x
\* has come no nearer to the end of the range in MaxStall iterations: the
\* loop goes on for ever, and the model follows it no further.
GridHangs ==
  /\ sampler.pc \in {"gridX", "gridY"}
  /\ GridEnter(graph, sampler.pc, sampler.it)
  /\ gridStep(graph) <= 0
  /\ sampler.it >= MaxStall

SamplerHangs ==
  /\ sampler.pc = "sampling"
  /\ MayEnter(graph, sampler.it)
  /\ ~MayLeave(graph, sampler.it)
  /\ step(graph).n = 0
  /\ sampler.it >= MaxStall

(***************************************************************************)
(* C27.  The process-wide id generator is strictly increasing: over any    *)
(* sequence of render calls the counter is never decremented or reset,     *)
(* and no renderer writes it other than through nextDiagramId (so          *)
(* renderFunctionGraph, which mints no id, leaves it as it is).            *)
(***************************************************************************)
C27_NeverReset == [][diagramIdCounter' >= diagramIdCounter]_vars

(***************************************************************************)
(* C21.  Rendering a FunctionGraph spec always terminates: for every       *)
(* xRange and yRange of two elements (equal or reversed bounds included)   *)
(* and every gridStep (negative ones included) the grid loops and the      *)
(* sampling loops come to their end: the renderer has no further step only *)
(* when the call has returned or thrown, never at the head of a loop that  *)
(* the model has stopped following because its x comes no nearer the end.  *)
(***************************************************************************)
C21_Terminates == ~GridHangs /\ ~SamplerHangs

\* What each word of the vocabulary stands for in the host library; any
\* other token stands for itself.
HostWord(t) ==
  CASE t \in {"sin", "cos", "tan", "abs", "sqrt", "exp"} -> <<"Math", ".", t>>
    [] t = "ln" -> <<"Math", ".", "log">>
    [] t = "log" -> <<"Math", ".", "log10">>
    [] t \in {"pi", "Pi", "pI", "PI"} -> <<"Math", ".", "PI">>
    [] t = "^" -> <<"**">>
    [] OTHER -> <<t>>

(***************************************************************************)
(* C22.  Vocabulary rewriting is correct for each word independently of    *)
(* the others: the text the evaluator runs is the expression with every    *)
(* word of the vocabulary replaced by its host equivalent (ln by Math.log, *)
(* log by Math.log10, ^ by the power sign), no replacement rewriting the   *)
(* text that an earlier one produced.                                      *)
(***************************************************************************)
C22_Rewriting ==
  (sampler.pc = "sampling" /\ graph.functions[sampler.fi].expr.type = "string") =>
    safeExpr(graph.functions[sampler.fi].expr.s)
      = Concat([i \in 1..Len(graph.functions[sampler.fi].expr.s) |->
                  HostWord(graph.functions[sampler.fi].expr.s[i])])

\* The expression texts that fault: missing, not a string, not parsing, and
\* failing when run (an unknown function, a property of undefined).
FaultyExprs ==
  {NoValue, Number(5), Str(<<"x", "+">>), Str(<<"foo", "(", "x", ")">>),
   Str(<<"ln", "(", "x", ")">>)}

Sampling == sampler.pc = "sampling"
CurrentExpr == graph.functions[sampler.fi].expr

C17_EvalNaN ==
  Sampling =>
    \A i \in 1..Len(graph.functions) : \A amb \in {0, 1} :
      graph.functions[i].expr \in FaultyExprs =>
        evalExpr(graph.functions[i].expr, xAt(graph, sampler.it), amb) = Returns(NaN, amb)

C17_Step ==
  /\ (Sample /\ CurrentExpr \in FaultyExprs) =>
        sampler' = [sampler EXCEPT !.drawing = FALSE, !.it = @ + 1]
  /\ (EndFunction /\ sampler.fi < Len(graph.functions)) =>
        sampler'.pc = "sampling" /\ sampler'.fi = sampler.fi + 1 /\ sampler'.it = 0

C18_SameResult ==
  Sampling =>
    \A i \in 1..Len(graph.functions) :
      LET r0 == evalExpr(graph.functions[i].expr, xAt(graph, sampler.it), 0)
          r1 == evalExpr(graph.functions[i].expr, xAt(graph, sampler.it), 1)
      IN  r0.k = r1.k /\ r0.v = r1.v

(***************************************************************************)
(* C18.  Expression confinement: evaluating an expression neither reads    *)
(* nor changes ambient state: two evaluations that differ only in the      *)
(* ambient state give the same result, and no step of the renderer changes *)
(* the ambient state.                                                      *)
(***************************************************************************)
C18_Confined == [](C18_SameResult) /\ [][ambient' = ambient]_vars

WellFormedPath(p) ==
  /\ Len(p) > 0 => p[1].op = "M"
  /\ \A i \in 2..Len(p) :
       /\ p[i].it > p[i - 1].it
       /\ p[i].op = "L" <=> p[i].it = p[i - 1].it + 1

\* The last iteration left a command at the end of the path being built if
\* and only if its sample was accepted.
LastSampleRecorded ==
  (Sampling /\ sampler.it > 0) =>
    ((sampler.pathD # <<>> /\ sampler.pathD[Len(sampler.pathD)].it = sampler.it - 1)
       <=> ~Skipped(graph, evalExpr(CurrentExpr, xAt(graph, sampler.it - 1), ambient).v))

(***************************************************************************)
(* C20.  Curve sampler pen state: a path holds one command per accepted    *)
(* sample; its first command is a move-to, a line-to joins a sample to the *)
(* accepted sample just before it, and the first accepted sample after a   *)
(* skipped one starts a new sub-path with a move-to.                       *)
(***************************************************************************)
C20_PenState == LastSampleRecorded /\ \A p \in Paths : WellFormedPath(p)

\* A finished curve that was broken and resumed: 1/x across x = 0.
C20_Witness ==
  /\ sampler.pc = "done"
  /\ \E k \in 1..Len(sampler.svg) :
       /\ sampler.svg[k].kind = "path"
       /\ \E i \in 2..Len(sampler.svg[k].at) :
            /\ sampler.svg[k].at[i].op = "M"
            /\ sampler.svg[k].at[i].it > sampler.svg[k].at[i - 1].it + 1
       /\ \E i \in 2..Len(sampler.svg[k].at) : sampler.svg[k].at[i].op = "L"

(***************************************************************************)
(* Vocabulary of the optics properties.  Distances are read off the output *)
(* and brought back to the units of the spec: along the axis by the pixel  *)
(* scale sx, and heights by the scale the object's height is drawn at,     *)
(* which is half of it.                                                    *)
(***************************************************************************)
OptPrim(kind) ==
  opticsOut.prims[CHOOSE k \in 1..Len(opticsOut.prims) : opticsOut.prims[k].kind = kind]

HasImage ==
  /\ opticsOut.state = "done"
  /\ \E k \in 1..Len(opticsOut.prims) : opticsOut.prims[k].kind = "image"

TheLens == optics.elements[LastOf(optics.elements, {"convex_lens", "concave_lens"})]
TheObject == optics.elements[LastOf(optics.elements, {"object"})]

\* The lens formula in the units of the spec.
UnitsU == FromInt(TheLens.position - TheObject.position)
UnitsF == FromInt(IF TheLens.focalLength = 0 THEN 10 ELSE TheLens.focalLength)
UnitsH == FromInt(IF TheObject.height = 0 THEN 3 ELSE TheObject.height)
UnitsV == Div(Mul(UnitsF, UnitsU), Sub(UnitsU, UnitsF))

ImageDistance ==
  Div(Sub(OptPrim("image").at[1], OptPrim("lens").at[1]), optSx(optics))
ImageHeightPx == Sub(FromInt(cy), OptPrim("image").at[4])
ImageHeight == Div(ImageHeightPx, Div(optSx(optics), FromInt(2)))

\* A convex lens at 0 with focal length 10, an object at -20 of height 4.
LensExample ==
  /\ opticsOut.state = "done"
  /\ optics.rays
  /\ Len(optics.elements) = 2
  /\ optics.elements[1] =
       [type |-> "convex_lens", position |-> 0, focalLength |-> 10, height |-> 0]
  /\ optics.elements[2] =
       [type |-> "object", position |-> -20, focalLength |-> 0, height |-> 4]

(***************************************************************************)
(* C14 as stated.  Thin-lens construction: for the lens of the example the *)
(* computed image distance is 20 and the computed image height is 4, after *)
(* dividing out the pixel scale.                                           *)
(***************************************************************************)
C14_ExampleHeightFour ==
  LensExample =>
    /\ HasImage
    /\ ImageDistance = FromInt(20)
    /\ Div(ImageHeightPx, optSx(optics)) = FromInt(4)

(***************************************************************************)
(* C14, amended.  Whenever the image is drawn, its distance from the lens  *)
(* is v = f*u/(u-f) with u the distance from the object to the lens, and   *)
(* its height is -(v/u) times the height of the object, heights being      *)
(* drawn at half the pixel scale; for the lens of the example the image    *)
(* distance is 20 and the image height is -4: the image is inverted.       *)
(***************************************************************************)
C14_ThinLens ==
  /\ HasImage => ImageDistance = UnitsV
                   /\ ImageHeight = Neg(Mul(Div(UnitsV, UnitsU), UnitsH))
  /\ LensExample => HasImage /\ ImageDistance = FromInt(20)
                      /\ ImageHeight = FromInt(-4)

C14_Witness == LensExample /\ HasImage /\ ImageDistance = FromInt(20)

\* The construction rays were drawn.
RaysDrawn ==
  /\ opticsOut.state = "done"
  /\ \E k \in 1..Len(opticsOut.prims) : opticsOut.prims[k].kind = "ray"

\* Every coordinate of the image and of the rays is a finite number.
RaysFinite ==
  \A k \in 1..Len(opticsOut.prims) :
    opticsOut.prims[k].kind \in {"image", "ray"} =>
      \A j \in 1..Len(opticsOut.prims[k].at) : isFinite(opticsOut.prims[k].at[j])

DirectionWords ==
  {Word(w) : w \in {"down", "gravity", "up", "normal", "left", "right", "friction_up",
                    "friction_down", "friction_left", "friction_right", "applied"}}

\* The arrows drawn for force i.
ArrowsOf(i) ==
  {k \in 1..Len(forceOut.prims) :
     forceOut.prims[k].kind = "arrow" /\ forceOut.prims[k].of = i}

\* The square of the length of an arrow.
SquareLength(at) ==
  Add(Mul(Sub(at[3], at[1]), Sub(at[3], at[1])), Mul(Sub(at[4], at[2]), Sub(at[4], at[2])))

FixedLength(magnitude) ==
  CASE magnitude = "small" -> 40 [] magnitude = "large" -> 80 [] OTHER -> 60

(***************************************************************************)
(* C24.  Force direction vocabulary: in the flat and in the incline layout *)
(* a force whose direction is a word of the fixed vocabulary yields        *)
(* exactly one arrow, of the fixed length its magnitude chooses (small 40, *)
(* medium 60, large 80, otherwise 60); a force with any other direction    *)
(* yields no arrow and no fault, the other forces still being drawn.       *)
(***************************************************************************)
C24_ForceVocabulary ==
  forceOut.state = "done" =>
    /\ ~forceOut.threw
    /\ \A i \in 1..Len(force.forces) :
         IF force.forces[i].direction.type = "string"
              /\ force.forces[i].direction.s \in DirectionWords
         THEN /\ Cardinality(ArrowsOf(i)) = 1
              /\ \A k \in ArrowsOf(i) :
                   SquareLength(forceOut.prims[k].at)
                     = FromInt(FixedLength(force.forces[i].magnitude)
                                 * FixedLength(force.forces[i].magnitude))
         ELSE ArrowsOf(i) = {}

(***************************************************************************)
(* Vocabulary of the cell diagram properties.                              *)
(***************************************************************************)
\* The organelles drawn by a call, the caption and the title left out.
Organelles(out) ==
  {out.prims[k].kind : k \in 1..Len(out.prims)} \ {"caption", "title"}

(***************************************************************************)
(* C25.  Cell kind gating: chloroplast, vacuole and cell wall are drawn    *)
(* only when the cell kind is plant, also when an animal cell requests     *)
(* them; an empty structure set draws exactly membrane and nucleus (with   *)
(* the wall of a plant cell); the highlighted list changes colours only,   *)
(* never which organelles are drawn.                                       *)
(***************************************************************************)
C25_KindGating ==
  cellOut.state = "done" =>
    /\ cell.cellType # "plant" =>
         Organelles(cellOut) \cap {"chloroplast", "vacuole", "cell_wall"} = {}
    /\ cell.structures = {} =>
         Organelles(cellOut) \ {"cell_wall"} = {"cell_membrane", "nucleus"}
    /\ Organelles(cellOut) = Organelles(renderCell([cell EXCEPT !.highlighted = {}]))

(***************************************************************************)
(* Vocabulary of the climate chart properties.  The plot area is the       *)
(* rectangle from (50, 70) to (350, 230).                                  *)
(***************************************************************************)
ChartDrawn == climateOut.state = "done"

ChartPrims(kind) ==
  {climateOut.prims[k] :
     k \in {j \in 1..Len(climateOut.prims) : climateOut.prims[j].kind = kind}}

\* The height above the bottom of the plot area of the value v on an axis
\* that runs from lo to hi.
OnAxis(v, lo, hi) == Num((v - lo) * 160, hi - lo)

InPlotArea(x, y) ==
  /\ Le(FromInt(50), x) /\ Le(x, FromInt(350))
  /\ Le(FromInt(70), y) /\ Le(y, FromInt(230))

DataOf(series) == {series[i] : i \in 1..Len(series)}

\* The i-th value of a series has a month label (twelve when none is given).
HasMonth(i) == i <= (IF climate.months = <<>> THEN 12 ELSE Len(climate.months))

(***************************************************************************)
(* C26 as stated.  Climate chart scales: the temperature axis runs from    *)
(* the minimum of the temperature data - 5 to their maximum + 5 and the    *)
(* precipitation axis from 0 to the maximum of the precipitation data;     *)
(* every temperature point and every bar top lies inside the plot area.    *)
(***************************************************************************)
C26_DataExtremes ==
  ChartDrawn =>
    /\ \A p \in ChartPrims("point") :
         /\ p.at[2] = Sub(FromInt(230),
                          OnAxis(climate.temperature[p.of],
                                 SetMin(DataOf(climate.temperature)) - 5,
                                 SetMax(DataOf(climate.temperature)) + 5))
         /\ InPlotArea(p.at[1], p.at[2])
    /\ \A b \in ChartPrims("bar") :
         /\ b.at[2] = Sub(FromInt(230),
                          OnAxis(climate.precipitation[b.of], 0,
                                 SetMax(DataOf(climate.precipitation))))
         /\ InPlotArea(b.at[1], b.at[2])

(***************************************************************************)
(* C26, amended.  The temperature axis runs from the minimum of the        *)
(* temperature data and 0, less 5, to the maximum of the data and 0, plus  *)
(* 5; the precipitation axis runs from 0 to the maximum of the data and 1. *)
(* Every temperature point that has a month lies inside the plot area, and *)
(* so does the top of the bar of every precipitation value that has a      *)
(* month and is not negative.                                              *)
(***************************************************************************)
C26_ZeroInScale ==
  ChartDrawn =>
    /\ \A p \in ChartPrims("point") :
         /\ p.at[2] = Sub(FromInt(230),
                          OnAxis(climate.temperature[p.of],
                                 SetMin(DataOf(climate.temperature) \cup {0}) - 5,
                                 SetMax(DataOf(climate.temperature) \cup {0}) + 5))
         /\ HasMonth(p.of) => InPlotArea(p.at[1], p.at[2])
    /\ \A b \in ChartPrims("bar") :
         /\ b.at[2] = Sub(FromInt(230),
                          OnAxis(climate.precipitation[b.of], 0,
                                 SetMax(DataOf(climate.precipitation) \cup {1})))
         /\ (HasMonth(b.of) /\ climate.precipitation[b.of] >= 0) =>
              InPlotArea(b.at[1], b.at[2])

\* A chart of twelve months, all of them warmer than 0, has been drawn.
C26_Witness ==
  /\ ChartDrawn
  /\ Len(climate.temperature) = 12
  /\ \A t \in DataOf(climate.temperature) : t > 0
  /\ Len(climate.precipitation) = 12
  /\ Cardinality(ChartPrims("point")) = 12


(***************************************************************************)
(* Claims about sanitizeSvg.                                               *)
(***************************************************************************)
\* A <script ... </script> block is left in the text.
HasScriptBlock(s) ==
  \E i \in 1..Len(s) : \E j \in (i + 7)..Len(s) :
    /\ MatchAt(s, i, <<"<", "s", "c", "r", "i", "p", "t">>)
    /\ MatchAt(s, j, <<"<", "/", "s", "c", "r", "i", "p", "t", ">">>)

\* An on*= attribute with a value is left in the text.
HasOnAttr(s) ==
  \E i \in 1..Len(s) : \E quote \in {"\"", "'", ""} :
    AttrEnd(SubSeq(s, i, Len(s)), quote) > 0

\* C30: sanitizeSvg applied to its own result gives that result again, and the
\* result holds no script block and no on*= attribute, for nested and split
\* script tags as well.
C30_Idempotent ==
  Len(sanitized) = 2 =>
    /\ sanitized[2] = sanitized[1]
    /\ ~HasScriptBlock(sanitized[1])
    /\ ~HasOnAttr(sanitized[1])


(***************************************************************************)
(* Claims about the render endpoint.                                       *)
(***************************************************************************)
Answered == handler # <<>> /\ handler.pc = "done"

HasFigure == normalizeFigureSpec(request.figure_spec) # NoFigure

GuaranteedRenderers == {"guaranteed-no-api-key", "guaranteed-on-render-error"}

\* C28: a request whose figure_spec normalizes to a figure is answered with
\* ok:true and a non-empty svg whatever the services do: the SVG of the
\* request when it has one, and the built-in diagram only without an API key
\* or after the AI renderer failed.
C28_AlwaysUsable ==
  Answered /\ HasFigure =>
    /\ handler.response.ok
    /\ handler.response.svg # <<>>
    /\ (handler.figureSpec.mode = "svg" /\ handler.figureSpec.svg # <<>>
          => handler.response.renderer = "passthrough")
    /\ (handler.response.renderer \in GuaranteedRenderers
          => request.env.OPENAI_API_KEY = "" \/ handler.thrown # NoError)

\* An error of status 503, or a message that names something unavailable.
Retryable(error) ==
  \/ error.status = 503
  \/ \E i \in 1..Len(error.message) :
       error.message[i] \in {"unavailable", "Unavailable", "distributor", "no-channel"}

\* C29: the AI renderer is called at most twice; a second call follows a
\* retryable first error only, with a fallback model that is set and differs
\* from the primary model, and it uses that model; otherwise the first error
\* leaves the function as it was thrown, and the error of a second call
\* leaves it without a third call.
C29_RetryProtocol ==
  handler # <<>> =>
    /\ Len(handler.calls) <= 2
    /\ Len(handler.errors) <= Len(handler.calls)
    /\ (Len(handler.calls) >= 1 => handler.calls[1] = handler.model)
    /\ (Len(handler.calls) = 2 =>
          /\ Len(handler.errors) >= 1
          /\ Retryable(handler.errors[1])
          /\ handler.fallbackModel # ""
          /\ handler.fallbackModel # handler.model
          /\ handler.calls[2] = handler.fallbackModel)
    /\ (Answered /\ handler.errors # <<>> /\ Len(handler.errors) = Len(handler.calls) =>
          handler.thrown = handler.errors[Len(handler.errors)])
    /\ (Answered /\ Len(handler.errors) < Len(handler.calls) => handler.thrown = NoError)

\* A retry was made and failed as well: the second error left the function.
C29_Witness ==
  /\ Answered
  /\ Len(handler.calls) = 2
  /\ Len(handler.errors) = 2
  /\ handler.errors[1] # handler.errors[2]
  /\ handler.thrown = handler.errors[2]

====
